---- MODULE Spec2Model ----
(***************************************************************************)
(* Model of keithley2600/keithley_driver.py: the command dispatch layer    *)
(* (MagicClass / MagicFunction / MagicPropertyList, _write, _query), the   *)
(* sweep engine (setIntegrationTime, voltageSweepSingleSMU,                *)
(* voltageSweepDualSMU) and the measurement orchestrator                   *)
(* (transferMeasurement, outputMeasurement).                               *)
(*                                                                         *)
(* Numbers are integers.  Integration times are counted in units of        *)
(* 1/60000 s and power-line cycles in units of 1/60000 PLC, so that        *)
(* nplc = tInt * freq is exact and the limits 0.001 PLC and 25 PLC are the *)
(* integers NplcMin and NplcMax.  The float products the named boundary    *)
(* inputs give in Python, (25/60)*60 = 25.0 and 0.0001*60 = 0.006, agree   *)
(* with the exact products used here.                                      *)
(***************************************************************************)
EXTENDS Integers, Sequences, FiniteSets, TLC

\* ------------------------------------------------------------------ bounds
MaxLen == 3        \* longest voltage list given to a sweep
MaxPolls == 1      \* status polls that find the loop condition still true, per loop
MaxFixed == 2      \* longest list of fixed values given to the orchestrator
MaxCalls == 2      \* dispatch calls per thread in the concurrency specification
MaxOps == 3        \* operations per behaviour on the namespace and the registry
MaxItems == 2      \* longest collection given to _convert_input
MaxLine == 3
MaxVolt == 2       \* longest response line drawn freely from the line characters

\* ------------------------------------------------- program constants (scaled)
NplcMin == 60          \* 0.001 PLC in units of 1/60000 PLC
NplcMax == 1500000     \* 25 PLC in units of 1/60000 PLC

VARIABLES
    connection,   \* Keithley2600Base.connection: TRUE when a transport is open
    abort,        \* abort_event.is_set()
    busy,         \* Keithley2600Base.busy
    pc,           \* position of the running sweep engine call
    args,         \* arguments of the running sweep engine call
    log,          \* lines sent on the transport by the running top-level call
    outcome,      \* how the top-level call ended: "none", "returned" or an exception
    ret,          \* value returned by the last sweep engine call
    polls,        \* polls made by the current poll loop
    status,       \* value of status.operation.sweeping.condition last read
    inst,         \* the instrument behind the transport
    meas,         \* frame of the running orchestrator call
    sd,           \* TransistorSweepData collector of the orchestrator call
    tpc,          \* concurrency: position of each thread
    lockOwner,    \* concurrency: thread holding Keithley2600Base._lock, or "none"
    wire,         \* concurrency: request lines sent and not yet executed
    replies,      \* concurrency: response lines not yet read
    resultVar,    \* concurrency: the instrument's global variable `result`
    calls,        \* concurrency: dispatch calls each thread has started
    got,          \* concurrency: last response each thread received
    heap,         \* namespace: the binding objects created, heap[1] is the session
    first,        \* namespace: the binding each path returned when first resolved
    last,         \* the last namespace, registry or codec operation and its result
    hist,         \* the operations made before the last one, oldest first
    _instances,   \* Keithley2600Factory._instances: address -> session
    opened        \* addresses of the transports opened so far

sessionVars == <<connection, abort, busy, pc, args, log, outcome, ret, polls,
                 status, inst, meas, sd>>
ioVars == <<tpc, lockOwner, wire, replies, resultVar, calls, got>>
extVars == <<heap, first, last, hist, _instances, opened>>
vars == <<connection, abort, busy, pc, args, log, outcome, ret, polls,
          status, inst, meas, sd, tpc, lockOwner, wire, replies, resultVar,
          calls, got, heap, first, last, hist, _instances, opened>>

\* ------------------------------------------------------ capability schema
\* keithley_doc.py: the membership sets the dispatch layer classifies names by.
FUNCTIONS == {"linearv", "listv", "clear", "clearcache", "iv", "initiate",
              "reset", "beep", "v"}
PROPERTIES == {"action", "nplc", "delay", "autorangei", "func", "count",
               "stimulus", "output", "levelv", "leveli", "linefreq",
               "condition", "orenable", "n"}
CONSTS == {"ENABLE", "AUTORANGE_ON", "OUTPUT_DCVOLTS", "OUTPUT_ON",
           "MEASURE_DCAMPS", "MEASURE_DCVOLTS", "SOURCE_COMPLETE_EVENT_ID",
           "EVENT_ID", "ARMED_EVENT_ID", "PULSE_COMPLETE_EVENT_ID",
           "MEASURE_COMPLETE_EVENT_ID"}
CLASSES == {"smua", "smub", "trigger", "source", "measure", "nvbuffer1",
            "nvbuffer2", "display", "endpulse", "endsweep", "arm", "blender",
            "status", "operation", "sweeping", "localnode", "beeper"}
PROPERTY_LISTS == {"readings", "sourcevalues", "trigger.blender[1].stimulus",
                   "trigger.blender[2].stimulus"}

SMU_LIST == {"smua", "smub"}

\* ------------------------------------------------------------ small helpers
Last(s) == s[Len(s)]
Front(s) == SubSeq(s, 1, Len(s) - 1)

RECURSIVE Reverse(_)
Reverse(s) == IF s = <<>> THEN <<>> ELSE Append(Reverse(Tail(s)), Head(s))

RECURSIVE Flatten(_)
Flatten(ss) ==
    IF Len(ss) = 0 THEN <<>>
    ELSE IF Len(ss) = 1 THEN ss[1]
    ELSE LET h == Len(ss) \div 2
         IN  Flatten(SubSeq(ss, 1, h)) \o Flatten(SubSeq(ss, h + 1, Len(ss)))

\* '%s.%s' % (self._name, attr_name), then strip('.')
Dot(name, attr) == IF name = "" THEN attr ELSE name \o "." \o attr

\* '%s[%s]' % (self._name, i)
Idx(name, i) == name \o "[" \o ToString(i) \o "]"

\* the dotted name of a node whose path segments are segs
RECURSIVE Dotted(_)
Dotted(segs) == IF segs = <<>> THEN "" ELSE Dot(Dotted(Front(segs)), Last(segs))

\* ------------------------------------------------------------ value codec
\* A response line is a sequence of one-character strings.

\* str.lower() on a line
LowerLine(s) ==
    LET Uppers == <<"A", "E", "F", "I", "L", "N", "R", "S", "T", "U", "Y">>
        Lowers == <<"a", "e", "f", "i", "l", "n", "r", "s", "t", "u", "y">> IN
    [i \in 1..Len(s) |->
        IF \E k \in 1..Len(Uppers) : Uppers[k] = s[i]
        THEN Lowers[CHOOSE k \in 1..Len(Uppers) : Uppers[k] = s[i]]
        ELSE s[i]]

\* str.strip(): float() ignores leading and trailing whitespace
Strip(s) ==
    LET idx == {i \in 1..Len(s) : s[i] # " "} IN
    IF idx = {} THEN <<>>
    ELSE SubSeq(s, CHOOSE i \in idx : \A j \in idx : i <= j,
                   CHOOSE i \in idx : \A j \in idx : i >= j)

\* the text of a line
RECURSIVE TextOf(_)
TextOf(s) == IF s = <<>> THEN "" ELSE s[1] \o TextOf(Tail(s))

\* float(string) reads [sign] inf | infinity | nan in any case, or a decimal
\* literal [sign] digits [. digits] [(e|E) [sign] digits] with a digit in
\* the mantissa.  ok: the line is accepted; the other fields are its parts.
FloatParts(s) ==
    LET Unsigned(x) == IF x # <<>> /\ x[1] \in {"+", "-"} THEN Tail(x) ELSE x
        SignOf(x) == IF x # <<>> /\ x[1] = "-" THEN -1 ELSE 1
        DigitChars == {"0", "1", "2", "3", "4", "5", "6", "7", "8", "9"}
        AllDigits(x) == \A i \in 1..Len(x) : x[i] \in DigitChars
        t == Strip(s)
        b == Unsigned(t)
        word == TextOf(LowerLine(b))
        special == word \in {"inf", "infinity", "nan"}
        expAt == {i \in 1..Len(b) : b[i] \in {"e", "E"}}
        m == IF expAt = {} THEN b ELSE SubSeq(b, 1, (CHOOSE i \in expAt : TRUE) - 1)
        e == IF expAt = {} THEN <<>>
             ELSE SubSeq(b, (CHOOSE i \in expAt : TRUE) + 1, Len(b))
        dotAt == {i \in 1..Len(m) : m[i] = "."}
        int == IF dotAt = {} THEN m ELSE SubSeq(m, 1, (CHOOSE i \in dotAt : TRUE) - 1)
        frac == IF dotAt = {} THEN <<>>
                ELSE SubSeq(m, (CHOOSE i \in dotAt : TRUE) + 1, Len(m))
        decimal == /\ Cardinality(expAt) <= 1
                   /\ Cardinality(dotAt) <= 1
                   /\ AllDigits(int) /\ AllDigits(frac)
                   /\ Len(int) + Len(frac) >= 1
                   /\ expAt # {} => (Unsigned(e) # <<>> /\ AllDigits(Unsigned(e)))
    IN  [ok |-> special \/ decimal,
         special |-> IF ~special THEN ""
                     ELSE IF word = "nan" THEN "nan"
                     ELSE IF SignOf(t) < 0 THEN "-inf" ELSE "inf",
         sign |-> SignOf(t), digits |-> int \o frac, scale |-> Len(frac),
         expSign |-> SignOf(e), expDigits |-> Unsigned(e)]

\* float(string) does not raise ValueError
IsFloat(s) == FloatParts(s).ok

\* the number a sequence of digit characters denotes
RECURSIVE NatOf(_)
NatOf(s) ==
    IF s = <<>> THEN 0
    ELSE 10 * NatOf(Front(s)) + (CHOOSE d \in 0..9 : ToString(d) = Last(s))

\* a number mant * 10^exp with mant not a multiple of 10 (0 is 0 * 10^0)
RECURSIVE Number(_, _)
Number(mant, exp) ==
    IF mant = 0 THEN [type |-> "Number", special |-> "", mant |-> 0, exp |-> 0]
    ELSE IF mant % 10 = 0 THEN Number(mant \div 10, exp + 1)
    ELSE [type |-> "Number", special |-> "", mant |-> mant, exp |-> exp]

\* float(string) for a line float() accepts
FloatOf(s) ==
    LET p == FloatParts(s) IN
    IF p.special # ""
    THEN [type |-> "Number", special |-> p.special, mant |-> 0, exp |-> 0]
    ELSE Number(p.sign * NatOf(p.digits), p.expSign * NatOf(p.expDigits) - p.scale)

Nil == [type |-> "Nil"]
Bool(b) == [type |-> "Bool", b |-> b]
Text(s) == [type |-> "Text", text |-> TextOf(s)]

\* a decoder that compares the words without regard to case and blanks
parse_response_loose(string) ==
    LET word == TextOf(LowerLine(Strip(string))) IN
    IF IsFloat(string) THEN FloatOf(string)
    ELSE IF word = "nil" THEN Nil
    ELSE IF word = "true" THEN Bool(TRUE)
    ELSE IF word = "false" THEN Bool(FALSE)
    ELSE Text(string)

\* Keithley2600Base.parse_response
parse_response(string) ==
    IF IsFloat(string) THEN FloatOf(string)
    ELSE IF TextOf(string) = "nil" THEN Nil
    ELSE IF TextOf(string) = "true" THEN Bool(TRUE)
    ELSE IF TextOf(string) = "false" THEN Bool(FALSE)
    ELSE Text(string)

\* Host-side values: Python bools, ints, strings, collections of these (a
\* list, or with another t of TO_TSP_LIST an array, a tuple or a set, items
\* being its iteration order), MagicClass nodes, and the other binding objects.
PyBool(b) == [t |-> "bool", b |-> b]
PyInt(n) == [t |-> "int", n |-> n]
PyStr(s) == [t |-> "str", s |-> s]
PyList(items) == [t |-> "list", items |-> items]
PyNode(kind, name) == [t |-> "object", kind |-> kind, name |-> name]

\* str(value) of a bool, an int or a string
str(v) ==
    IF v.t = "bool" THEN (IF v.b THEN "True" ELSE "False")
    ELSE IF v.t = "int" THEN ToString(v.n)
    ELSE v.s

\* ', '.join(items)
RECURSIVE join(_)
join(items) ==
    IF items = <<>> THEN ""
    ELSE IF Len(items) = 1 THEN items[1]
    ELSE items[1] \o ", " \o join(Tail(items))

\* input types that are sent as TSP lists
TO_TSP_LIST == {"list", "ndarray", "tuple", "set"}

\* an encoder that sends a bool as Python prints it
_convert_input_str(value) ==
    IF value.t = "bool" THEN PyStr(str(value))
    ELSE IF value.t \in TO_TSP_LIST
         THEN PyStr("{" \o join([i \in 1..Len(value.items) |-> str(value.items[i])]) \o "}")
    ELSE IF value.t = "object" /\ value.kind = "class" THEN PyStr(value.name)
    ELSE value

\* Keithley2600Base._convert_input
_convert_input(value) ==
    IF value.t = "bool" THEN PyStr(IF value.b THEN "true" ELSE "false")
    ELSE IF value.t \in TO_TSP_LIST
         THEN PyStr("{" \o join([i \in 1..Len(value.items) |-> str(value.items[i])]) \o "}")
    ELSE IF value.t = "object" /\ value.kind = "class" THEN PyStr(value.name)
    ELSE value

\* ------------------------------------------------------- command dispatch
\* One line sent on the transport.  A write carries the statement's target
\* name, the names or literals given as arguments (refs) and its numeric
\* arguments (nums); a query carries the expression printed.
WriteLine(kind, name, refs, nums) ==
    [op |-> "write", kind |-> kind, name |-> name, refs |-> refs, nums |-> nums]
QueryLine(name) ==
    [op |-> "query", kind |-> "print", name |-> name, refs |-> <<>>, nums |-> <<>>]

\* A statement of a handler: the lines it sends, and the exception it raises
\* after sending them ("none" when it completes).
Stmt(io, exc) == [io |-> io, exc |-> exc]
Raise(exc) == Stmt(<<>>, exc)

\* Keithley2600Base._write: the line goes to the transport
_write(value) == Stmt(<<value>>, "none")

\* a _query that sends nothing
QueryNotSent(value) == Stmt(<<>>, "none")

\* Keithley2600Base._query: print(<value>) goes to the transport, one line is read
_query(value) == Stmt(<<QueryLine(value)>>, "none")

\* MagicFunction.__call__: write 'result = name(args)', then query 'result'
MagicFunction_call(name, refs, nums) ==
    Stmt(_write(WriteLine("call", name, refs, nums)).io \o _query("result").io,
         "none")

\* a resolver that takes every unclassified name for a group
HandlerDefaultClass(parent, attr_name) ==
    IF attr_name \in FUNCTIONS THEN "function"
    ELSE IF attr_name \in PROPERTY_LISTS THEN "list"
    ELSE IF attr_name \in PROPERTIES \/ attr_name \in CONSTS THEN "value"
    ELSE "class"

\* MagicClass.__get_global_handler: what the access parent.attr_name binds
Handler(parent, attr_name) ==
    LET new_name == Dot(parent, attr_name) IN
    IF attr_name \in FUNCTIONS THEN "function"
    ELSE IF attr_name \in PROPERTY_LISTS THEN "list"
    ELSE IF attr_name \in PROPERTIES \/ attr_name \in CONSTS
         THEN IF new_name \in PROPERTY_LISTS THEN "list" ELSE "value"
    ELSE IF attr_name \in CLASSES THEN "class"
    ELSE "error"

\* the read access parent.attr_name as a statement
GetAttr(parent, attr_name) ==
    LET h == Handler(parent, attr_name) IN
    IF h = "value" THEN _query(Dot(parent, attr_name))
    ELSE IF h = "error" THEN Raise("AttributeError")
    ELSE Stmt(<<>>, "none")

\* MagicClass.__setattr__: the assignment parent.attr_name = value
SetAttr(parent, attr_name, refs, nums) ==
    IF attr_name \in PROPERTIES
    THEN _write(WriteLine("set", Dot(parent, attr_name), refs, nums))
    ELSE IF attr_name \in CONSTS THEN Raise("ValueError")
    ELSE Stmt(<<>>, "none")

\* MagicPropertyList.__setitem__ and __getitem__
SetItem(name, i, refs, nums) == _write(WriteLine("set", Idx(name, i), refs, nums))
GetItem(name, i) == _query(Idx(name, i))

\* a session whose statements never find the transport missing
NotBlocked(s) == FALSE

\* A statement that sends a line while no transport is open raises
\* KeithleyIOError before anything is sent (_write and _query:
\* `if self.connection: ... else: raise`).
Blocked(s) == s.io # <<>> /\ ~connection

\* the statement ends the run with an exception
Stops(s) == Blocked(s) \/ s.exc # "none"

\* Runs the statements in order up to the first one that raises: the lines
\* sent, and the exception that ended the run ("none" when all completed).
Run(stmts) ==
    LET stops == {i \in 1..Len(stmts) : Stops(stmts[i])}
        k == IF stops = {} THEN Len(stmts) + 1
             ELSE CHOOSE i \in stops : \A j \in stops : i <= j
        sent == [i \in 1..Len(stmts) |->
                    IF i < k \/ (i = k /\ ~Blocked(stmts[i])) THEN stmts[i].io
                    ELSE <<>>]
    IN  [log |-> Flatten(sent),
         exc |-> IF k > Len(stmts) THEN "none"
                 ELSE IF Blocked(stmts[k]) THEN "KeithleyIOError"
                 ELSE stmts[k].exc]

\* ---------------------------------------------------------- sweep engine
\* Keithley2600._check_smu: the assertion's condition
_check_smu(smu) == smu # <<>> /\ Last(smu) \in SMU_LIST

\* np.diff(sweeplist)
diff(list) == [i \in 1..(Len(list) - 1) |-> list[i + 1] - list[i]]

\* np.all(diffs == diffs[0]), for a list of two or more values
ConstantStep(list) ==
    LET diffs == diff(list) IN \A i \in 1..Len(diffs) : diffs[i] = diffs[1]

\* Lines 701-705 (897-907): the source configuration of one channel.  For a
\* list of fewer than two values diffs is empty and diffs[0] raises IndexError.
SourceConfig(smu, list) ==
    LET src == Dot(Dot(Dotted(smu), "trigger"), "source") IN
    IF Len(list) < 2 THEN Raise("IndexError")
    ELSE IF ConstantStep(list)
         THEN MagicFunction_call(Dot(src, "linearv"), <<>>,
                                 <<list[1], Last(list), Len(list)>>)
         ELSE MagicFunction_call(Dot(src, "listv"), <<>>, list)

\* the range check with the upper limit itself rejected (`nplc >= 25`)
NplcInRangeExclusive(nplc) == ~(nplc < NplcMin \/ nplc >= NplcMax)

\* the range check without its upper limit
NplcInRangeNoUpper(nplc) == ~(nplc < NplcMin)

\* tInt * freq within [0.001, 25] PLC: the negation of the raise condition
NplcInRange(nplc) == ~(nplc < NplcMin \/ nplc > NplcMax)

\* Keithley2600.setIntegrationTime, after _check_smu
setIntegrationTime(smu, tInt) ==
    LET nplc == tInt * inst.linefreq IN
    <<GetAttr("localnode", "linefreq"),
      IF NplcInRange(nplc)
      THEN SetAttr(Dot(Dotted(smu), "measure"), "nplc", <<>>, <<nplc>>)
      ELSE Raise("ValueError")>>

\* `x.attr = owner.KONST`: the constant is read (one query), then assigned
SetToConst(parent, attr_name, owner, konst) ==
    <<GetAttr(owner, konst),
      SetAttr(parent, attr_name, <<Dot(owner, konst)>>, <<>>)>>

\* a clear that leaves the voltage buffer and its cache alone
ClearCurrentBufferOnly(smu) ==
    LET s == Dotted(smu) IN
    <<MagicFunction_call(Dot(Dot(s, "nvbuffer1"), "clear"), <<>>, <<>>),
      MagicFunction_call(Dot(Dot(s, "nvbuffer1"), "clearcache"), <<>>, <<>>)>>

\* smu.nvbuffer1.clear(), nvbuffer2.clear(), nvbuffer1.clearcache(),
\* nvbuffer2.clearcache()
ClearBuffers(smu) ==
    LET s == Dotted(smu) IN
    <<MagicFunction_call(Dot(Dot(s, "nvbuffer1"), "clear"), <<>>, <<>>),
      MagicFunction_call(Dot(Dot(s, "nvbuffer2"), "clear"), <<>>, <<>>),
      MagicFunction_call(Dot(Dot(s, "nvbuffer1"), "clearcache"), <<>>, <<>>),
      MagicFunction_call(Dot(Dot(s, "nvbuffer2"), "clearcache"), <<>>, <<>>)>>

\* self.display.smua.measure.func = self.display.MEASURE_DCAMPS, and smub
DisplayAmps ==
    SetToConst("display.smua.measure", "func", "display", "MEASURE_DCAMPS")
    \o SetToConst("display.smub.measure", "func", "display", "MEASURE_DCAMPS")

Truthy(pulsed) == pulsed \in {"True", "yes"}

\* an end-of-pulse action that is Hold whatever pulsed says
EndPulseActionHold(pulsed) == 1

\* `if pulsed: 0  elif not pulsed: 1  else: raise TypeError`; -1 is the raise
EndPulseAction(pulsed) ==
    IF Truthy(pulsed) THEN 0 ELSE IF ~Truthy(pulsed) THEN 1 ELSE -1

PulsedCheck(pulsed) ==
    IF EndPulseAction(pulsed) = -1 THEN <<Raise("TypeError")>> ELSE <<>>

\* voltageSweepSingleSMU, lines 699-819: the statements from the source
\* configuration to the manual trigger
SingleConfig(a) ==
    LET s == Dotted(a.smu1)
        trg == Dot(s, "trigger")
        npts == Len(a.list1)
        epa == EndPulseAction(a.pulsed)
    IN  <<SourceConfig(a.smu1, a.list1)>>
        \o SetToConst(Dot(trg, "source"), "action", s, "ENABLE")
        \o setIntegrationTime(a.smu1, a.tInt)
        \o <<SetAttr(Dot(s, "measure"), "delay", <<>>, <<a.delay>>)>>
        \o SetToConst(Dot(s, "measure"), "autorangei", s, "AUTORANGE_ON")
        \o SetToConst(Dot(s, "source"), "func", s, "OUTPUT_DCVOLTS")
        \o ClearBuffers(a.smu1)
        \o DisplayAmps
        \o <<SetAttr(trg, "count", <<>>, <<npts>>)>>
        \o SetToConst(Dot(trg, "measure"), "action", s, "ENABLE")
        \o <<MagicFunction_call(Dot(Dot(trg, "measure"), "iv"),
                                <<Dot(s, "nvbuffer1"), Dot(s, "nvbuffer2")>>, <<>>)>>
        \o SetToConst(Dot(trg, "measure"), "stimulus", trg, "SOURCE_COMPLETE_EVENT_ID")
        \o PulsedCheck(a.pulsed)
        \o <<SetAttr(Dot(trg, "endpulse"), "action", <<>>, <<epa>>),
             SetAttr(Dot(trg, "endsweep"), "action", <<>>, <<epa>>)>>
        \o SetToConst(Dot(trg, "arm"), "stimulus", "trigger", "EVENT_ID")
        \o <<SetAttr("trigger.blender[1]", "orenable", <<"true">>, <<>>),
             GetAttr(trg, "ARMED_EVENT_ID"),
             GetAttr("trigger.blender[1]", "stimulus"),
             SetItem("trigger.blender[1].stimulus", 1, <<Dot(trg, "ARMED_EVENT_ID")>>, <<>>),
             GetAttr(trg, "PULSE_COMPLETE_EVENT_ID"),
             GetAttr("trigger.blender[1]", "stimulus"),
             SetItem("trigger.blender[1].stimulus", 2,
                     <<Dot(trg, "PULSE_COMPLETE_EVENT_ID")>>, <<>>)>>
        \o SetToConst(Dot(trg, "source"), "stimulus", "trigger.blender[1]", "EVENT_ID")
        \o <<SetAttr("trigger.blender[2]", "orenable", <<"true">>, <<>>),
             GetAttr(trg, "MEASURE_COMPLETE_EVENT_ID"),
             GetAttr("trigger.blender[2]", "stimulus"),
             SetItem("trigger.blender[2].stimulus", 1,
                     <<Dot(trg, "MEASURE_COMPLETE_EVENT_ID")>>, <<>>)>>
        \o SetToConst(Dot(trg, "endpulse"), "stimulus", "trigger.blender[2]", "EVENT_ID")
        \o SetToConst(Dot(s, "source"), "output", s, "OUTPUT_ON")
        \o <<MagicFunction_call(Dot(trg, "initiate"), <<>>, <<>>),
             _write(WriteLine("raw", "*trg", <<>>, <<>>))>>

\* a wiring in which each channel measures on its own source-complete event
MeasureStimulusOwn(t1, t2) ==
    SetToConst(Dot(t1, "measure"), "stimulus", t1, "SOURCE_COMPLETE_EVENT_ID")
    \o SetToConst(Dot(t2, "measure"), "stimulus", t2, "SOURCE_COMPLETE_EVENT_ID")

\* lines 969-970: both channels measure when the source of smu1 is complete
MeasureStimulus(t1, t2) ==
    SetToConst(Dot(t1, "measure"), "stimulus", t1, "SOURCE_COMPLETE_EVENT_ID")
    \o SetToConst(Dot(t2, "measure"), "stimulus", t1, "SOURCE_COMPLETE_EVENT_ID")

\* voltageSweepDualSMU, lines 895-1038
DualConfig(a) ==
    LET s1 == Dotted(a.smu1)
        s2 == Dotted(a.smu2)
        t1 == Dot(s1, "trigger")
        t2 == Dot(s2, "trigger")
        npts == Len(a.list1)
        epa == EndPulseAction(a.pulsed)
    IN  <<SourceConfig(a.smu1, a.list1), SourceConfig(a.smu2, a.list2)>>
        \o SetToConst(Dot(t1, "source"), "action", s1, "ENABLE")
        \o SetToConst(Dot(t2, "source"), "action", s2, "ENABLE")
        \o setIntegrationTime(a.smu1, a.tInt)
        \o setIntegrationTime(a.smu2, a.tInt)
        \o <<SetAttr(Dot(s1, "measure"), "delay", <<>>, <<a.delay>>),
             SetAttr(Dot(s2, "measure"), "delay", <<>>, <<a.delay>>)>>
        \o SetToConst(Dot(s1, "measure"), "autorangei", s1, "AUTORANGE_ON")
        \o SetToConst(Dot(s2, "measure"), "autorangei", s2, "AUTORANGE_ON")
        \o SetToConst(Dot(s1, "source"), "func", s1, "OUTPUT_DCVOLTS")
        \o SetToConst(Dot(s2, "source"), "func", s2, "OUTPUT_DCVOLTS")
        \o ClearBuffers(a.smu1)
        \o ClearBuffers(a.smu2)
        \o DisplayAmps
        \o <<SetAttr(t1, "count", <<>>, <<npts>>),
             SetAttr(t2, "count", <<>>, <<npts>>)>>
        \o SetToConst(Dot(t1, "measure"), "action", s1, "ENABLE")
        \o SetToConst(Dot(t2, "measure"), "action", s2, "ENABLE")
        \o <<MagicFunction_call(Dot(Dot(t1, "measure"), "iv"),
                                <<Dot(s1, "nvbuffer1"), Dot(s1, "nvbuffer2")>>, <<>>),
             MagicFunction_call(Dot(Dot(t2, "measure"), "iv"),
                                <<Dot(s2, "nvbuffer1"), Dot(s2, "nvbuffer2")>>, <<>>)>>
        \o MeasureStimulus(t1, t2)
        \o PulsedCheck(a.pulsed)
        \o <<SetAttr(Dot(t1, "endpulse"), "action", <<>>, <<epa>>),
             SetAttr(Dot(t2, "endpulse"), "action", <<>>, <<epa>>),
             SetAttr(Dot(t1, "endsweep"), "action", <<>>, <<epa>>),
             SetAttr(Dot(t2, "endsweep"), "action", <<>>, <<epa>>)>>
        \o SetToConst(Dot(t1, "arm"), "stimulus", "trigger", "EVENT_ID")
        \o <<SetAttr("trigger.blender[1]", "orenable", <<"true">>, <<>>),
             GetAttr(t1, "ARMED_EVENT_ID"),
             GetAttr("trigger.blender[1]", "stimulus"),
             SetItem("trigger.blender[1].stimulus", 1, <<Dot(t1, "ARMED_EVENT_ID")>>, <<>>),
             GetAttr(t1, "PULSE_COMPLETE_EVENT_ID"),
             GetAttr("trigger.blender[1]", "stimulus"),
             SetItem("trigger.blender[1].stimulus", 2,
                     <<Dot(t1, "PULSE_COMPLETE_EVENT_ID")>>, <<>>)>>
        \o SetToConst(Dot(t1, "source"), "stimulus", "trigger.blender[1]", "EVENT_ID")
        \o <<SetAttr("trigger.blender[2]", "orenable", <<"false">>, <<>>),
             GetAttr(t1, "MEASURE_COMPLETE_EVENT_ID"),
             GetAttr("trigger.blender[2]", "stimulus"),
             SetItem("trigger.blender[2].stimulus", 1,
                     <<Dot(t1, "MEASURE_COMPLETE_EVENT_ID")>>, <<>>),
             GetAttr(t2, "MEASURE_COMPLETE_EVENT_ID"),
             GetAttr("trigger.blender[2]", "stimulus"),
             SetItem("trigger.blender[2].stimulus", 2,
                     <<Dot(t2, "MEASURE_COMPLETE_EVENT_ID")>>, <<>>)>>
        \o SetToConst(Dot(t1, "endpulse"), "stimulus", "trigger.blender[2]", "EVENT_ID")
        \o SetToConst(Dot(s1, "source"), "output", s1, "OUTPUT_ON")
        \o SetToConst(Dot(s2, "source"), "output", s2, "OUTPUT_ON")
        \o <<MagicFunction_call(Dot(t1, "initiate"), <<>>, <<>>),
             MagicFunction_call(Dot(t2, "initiate"), <<>>, <<>>),
             _write(WriteLine("raw", "*trg", <<>>, <<>>))>>

Config(a) == IF a.fn = "single" THEN SingleConfig(a) ELSE DualConfig(a)

\* the channels a sweep call drives
Channels(a) == IF a.fn = "single" THEN <<a.smu1>> ELSE <<a.smu1, a.smu2>>

\* ------------------------------------------------------------ instrument
\* The instrument behind the transport, as the driver relies on it: it
\* reports its line frequency, starts the configured sweep some time after
\* the manual trigger, reports the sweeping channels in
\* status.operation.sweeping.condition (2 = smua, 4 = smub, 6 = both,
\* 0 = none), and stores one reading per trigger in each buffer of an
\* initiated channel.
BufferNames == {Dot(s, b) : s \in SMU_LIST, b \in {"nvbuffer1", "nvbuffer2"}}
EmptyBuffers == [b \in BufferNames |-> <<>>]

WritesTo(l, names) == SelectSeq(l, LAMBDA e : e.op = "write" /\ e.name \in names)

\* the buffers after the lines of l: nvbufferY.clear() empties a buffer
Cleared(buf, l) ==
    [b \in BufferNames |->
        IF WritesTo(l, {Dot(b, "clear")}) # <<>> THEN <<>> ELSE buf[b]]

\* the points of smu.trigger.source.linearv(start, stop, n)
linearv(start, stop, n) ==
    [i \in 1..n |-> IF n = 1 THEN start ELSE start + ((i - 1) * (stop - start)) \div (n - 1)]

\* the source list the lines of l last configured for channel s
SourceOf(l, s) ==
    LET src == Dot(Dot(s, "trigger"), "source")
        w == WritesTo(l, {Dot(src, "linearv"), Dot(src, "listv")})
    IN  IF w = <<>> THEN <<>>
        ELSE IF Last(w).name = Dot(src, "linearv")
             THEN linearv(Last(w).nums[1], Last(w).nums[2], Last(w).nums[3])
             ELSE Last(w).nums

\* the trigger count the lines of l last set for channel s
CountOf(l, s) ==
    LET w == WritesTo(l, {Dot(Dot(s, "trigger"), "count")})
    IN  IF w = <<>> THEN 0 ELSE Last(w).nums[1]

Initiated(l, s) == WritesTo(l, {Dot(Dot(s, "trigger"), "initiate")}) # <<>>

SweepingBit(s) == IF s = "smua" THEN 2 ELSE 4

RECURSIVE SumBits(_)
SumBits(S) == IF S = {} THEN 0
              ELSE LET s == CHOOSE x \in S : TRUE IN SweepingBit(s) + SumBits(S \ {s})

\* the readings a finished sweep leaves in buffer b of channel s
Readings(l, s) ==
    LET src == SourceOf(l, s)
        n == CountOf(l, s)
    IN  IF n <= Len(src) THEN SubSeq(src, 1, n) ELSE src

\* the sweep starts: the initiated channels report sweeping
InstrStart ==
    /\ inst.phase = "triggered"
    /\ inst' = [inst EXCEPT !.phase = "sweeping",
                            !.sweeping = SumBits({s \in SMU_LIST : Initiated(log, s)})]
    /\ UNCHANGED <<connection, abort, busy, pc, args, log, outcome, ret, polls,
                   status, meas, sd>>
    /\ UNCHANGED ioVars
    /\ UNCHANGED extVars

\* the sweep ends: the buffers of the initiated channels hold the readings
InstrFinish ==
    /\ inst.phase = "sweeping"
    /\ inst' = [inst EXCEPT !.phase = "complete",
                            !.sweeping = 0,
                            !.buf = [b \in BufferNames |->
                                LET s == CHOOSE x \in SMU_LIST :
                                             b \in {Dot(x, "nvbuffer1"), Dot(x, "nvbuffer2")}
                                IN  IF Initiated(log, s) THEN Readings(log, s)
                                    ELSE inst.buf[b]]]
    /\ UNCHANGED <<connection, abort, busy, pc, args, log, outcome, ret, polls,
                   status, meas, sd>>
    /\ UNCHANGED ioVars
    /\ UNCHANGED extVars

\* ------------------------------------------------------ sweep engine calls
NoArgs == [fn |-> "none", smu1 |-> <<>>, smu2 |-> <<>>, list1 |-> <<>>,
           list2 |-> <<>>, tInt |-> 0, delay |-> 0, pulsed |-> "False"]
NoMeas == [op |-> "none"]

\* the input checks without the assertion on the lengths of the two lists
InputChecksNoLength(a) ==
    IF a.fn = "single" THEN _check_smu(a.smu1)
    ELSE _check_smu(a.smu1) /\ _check_smu(a.smu2)

\* the input checks: _check_smu on every channel, and for the dual sweep
\* `assert len(smu1_sweeplist) == len(smu2_sweeplist)`
InputChecks(a) ==
    IF a.fn = "single" THEN _check_smu(a.smu1)
    ELSE /\ _check_smu(a.smu1)
         /\ _check_smu(a.smu2)
         /\ Len(a.list1) = Len(a.list2)

\* a sweep entry that does not look at the abort event
AbortNotChecked == FALSE

\* `if self.abort_event.is_set()` at sweep entry
AbortObserved == abort

\* the empty result lists returned on an early abort
EmptyResult(a) == IF a.fn = "single" THEN <<<<>>, <<>>>> ELSE <<<<>>, <<>>, <<>>, <<>>>>

\* Entry of voltageSweepSingleSMU / voltageSweepDualSMU with arguments a, up
\* to the first poll of the status register.  top: the call is the top-level
\* call (not made by the orchestrator).
SweepEnter(a, top) ==
    /\ args' = a
    /\ polls' = 0
    /\ status' = 0
    /\ IF ~InputChecks(a)
       THEN /\ pc' = "exc"
            /\ outcome' = "AssertionError"
            /\ UNCHANGED <<busy, log, ret, inst>>
       ELSE IF AbortObserved
       THEN /\ busy' = FALSE
            /\ ret' = EmptyResult(a)
            /\ pc' = "ret"
            /\ outcome' = IF top THEN "returned" ELSE outcome
            /\ UNCHANGED <<log, inst>>
       ELSE LET r == Run(Config(a)) IN
            /\ busy' = TRUE
            /\ log' = log \o r.log
            /\ UNCHANGED ret
            /\ IF r.exc # "none"
               THEN /\ pc' = "exc"
                    /\ outcome' = r.exc
                    /\ UNCHANGED inst
               ELSE /\ pc' = "poll_begin"
                    /\ UNCHANGED outcome
                    /\ inst' = [inst EXCEPT !.phase = "triggered",
                                            !.sweeping = 0,
                                            !.buf = Cleared(inst.buf, r.log)]

StatusQuery == QueryLine("status.operation.sweeping.condition")

\* a first loop that a status of 0 does not hold back
NeverWaits(st) == FALSE

\* a first loop that the abort event ends
WaitsUnlessAborted(st) == st = 0 /\ ~abort

\* `while status == 0`: the loop that runs until the sweep begins goes on
WaitsForBegin(st) == st = 0

\* `while status == 0`: one pass of the loop that waits for the sweep to begin
PollBegin ==
    /\ pc = "poll_begin"
    /\ inst.sweeping # 0 \/ polls < MaxPolls
    /\ IF ~connection
       THEN /\ pc' = "exc"
            /\ outcome' = "KeithleyIOError"
            /\ UNCHANGED <<status, log, polls>>
       ELSE /\ status' = inst.sweeping
            /\ log' = Append(log, StatusQuery)
            /\ UNCHANGED outcome
            /\ IF WaitsForBegin(inst.sweeping)
               THEN polls' = polls + 1 /\ pc' = pc
               ELSE polls' = 0 /\ pc' = "poll_end"
    /\ UNCHANGED <<connection, abort, busy, args, ret, inst, meas, sd>>
    /\ UNCHANGED ioVars
    /\ UNCHANGED extVars

\* a read of the buffer at the indices 0..n-1
readBufferZeroBased(buffer) ==
    <<GetAttr(buffer, "n")>>
    \o Flatten([i \in 1..Len(inst.buf[buffer]) |->
                   <<GetAttr(buffer, "readings"),
                     GetItem(Dot(buffer, "readings"), i - 1)>>])

\* Keithley2600.readBuffer: buffer.n, then buffer.readings[i+1] for i < n
readBuffer(buffer) ==
    <<GetAttr(buffer, "n")>>
    \o Flatten([i \in 1..Len(inst.buf[buffer]) |->
                   <<GetAttr(buffer, "readings"),
                     GetItem(Dot(buffer, "readings"), i)>>])

\* a harvest that clears the buffers before it reads them
HarvestClearFirst(a) ==
    Flatten([k \in 1..Len(Channels(a)) |-> ClearBuffers(Channels(a)[k])])
    \o Flatten([k \in 1..Len(Channels(a)) |->
                   readBuffer(Dot(Dotted(Channels(a)[k]), "nvbuffer1"))
                   \o readBuffer(Dot(Dotted(Channels(a)[k]), "nvbuffer2"))])

\* lines 1056-1067 (837-845): the harvest of every channel, then the clears
Harvest(a) ==
    Flatten([k \in 1..Len(Channels(a)) |->
                readBuffer(Dot(Dotted(Channels(a)[k]), "nvbuffer1"))
                \o readBuffer(Dot(Dotted(Channels(a)[k]), "nvbuffer2"))])
    \o Flatten([k \in 1..Len(Channels(a)) |-> ClearBuffers(Channels(a)[k])])

\* the lists returned: (v_smu, i_smu) per channel
Result(a) ==
    Flatten([k \in 1..Len(Channels(a)) |->
                <<inst.buf[Dot(Dotted(Channels(a)[k]), "nvbuffer2")],
                  inst.buf[Dot(Dotted(Channels(a)[k]), "nvbuffer1")]>>])

\* `while status > 0`: one pass of the loop that waits for the sweep to end;
\* when the status read is 0 the call harvests, clears and returns
PollEnd ==
    /\ pc = "poll_end"
    /\ inst.sweeping = 0 \/ polls < MaxPolls
    /\ IF ~connection
       THEN /\ pc' = "exc"
            /\ outcome' = "KeithleyIOError"
            /\ UNCHANGED <<status, log, polls, busy, ret, inst>>
       ELSE IF inst.sweeping > 0
       THEN /\ status' = inst.sweeping
            /\ polls' = polls + 1
            /\ log' = Append(log, StatusQuery)
            /\ UNCHANGED <<pc, busy, ret, inst, outcome>>
       ELSE /\ status' = inst.sweeping
            /\ polls' = 0
            /\ log' = Append(log, StatusQuery) \o Run(Harvest(args)).log
            /\ ret' = Result(args)
            /\ inst' = [inst EXCEPT !.buf = Cleared(inst.buf, Run(Harvest(args)).log)]
            /\ busy' = FALSE
            /\ pc' = "ret"
            /\ outcome' = IF meas.op = "none" THEN "returned" ELSE outcome
    /\ UNCHANGED <<connection, abort, args, meas, sd>>
    /\ UNCHANGED ioVars
    /\ UNCHANGED extVars

\* another thread sets abort_event while a call runs
AbortSet ==
    /\ ~abort
    /\ outcome = "none"
    /\ pc # "idle" \/ meas.op # "none"
    /\ abort' = TRUE
    /\ UNCHANGED <<connection, busy, pc, args, log, outcome, ret, polls, status,
                   inst, meas, sd>>
    /\ UNCHANGED ioVars
    /\ UNCHANGED extVars

\* ------------------------------------------------------------- the inputs
SmuArgs == {<<"smua">>, <<"smub">>, <<"display">>}
Volts == {0, 1}
DualSmuPairs == {<<<<"smua">>, <<"smub">>>>, <<<<"smub">>, <<"smua">>>>,
                 <<<<"smua">>, <<"smua">>>>, <<<<"display">>, <<"smub">>>>,
                 <<<<"smua">>, <<"display">>>>}
Lists == UNION {[1..n -> Volts] : n \in 1..MaxLen}
TInts == {0, 1, 6, 25000, 25001, 30000, 30001, 60000}
SweepTInts == {6, 60000}
Delays == {-1}
PulsedArgs == {"True", "False", "yes", "None"}
LineFreqs == {50, 60}

Idle == pc = "idle" /\ outcome = "none" /\ meas.op = "none"

\* a top-level call of setIntegrationTime(smu, tInt)
CallSetIntegrationTime ==
    /\ Idle
    /\ \E smu \in SmuArgs, tInt \in TInts :
          LET r == IF _check_smu(smu) THEN Run(setIntegrationTime(smu, tInt))
                   ELSE [log |-> <<>>, exc |-> "AssertionError"]
          IN  /\ args' = [NoArgs EXCEPT !.fn = "setIntegrationTime",
                                        !.smu1 = smu, !.tInt = tInt]
              /\ log' = r.log
              /\ pc' = IF r.exc = "none" THEN "ret" ELSE "exc"
              /\ outcome' = IF r.exc = "none" THEN "returned" ELSE r.exc
    /\ UNCHANGED <<connection, abort, busy, ret, polls, status, inst, meas, sd>>
    /\ UNCHANGED ioVars
    /\ UNCHANGED extVars

\* a top-level call of voltageSweepSingleSMU
CallSingle ==
    /\ Idle
    /\ \E smu \in SmuArgs, list \in Lists, tInt \in SweepTInts, delay \in Delays,
          pulsed \in PulsedArgs :
          SweepEnter([NoArgs EXCEPT !.fn = "single", !.smu1 = smu, !.list1 = list,
                                    !.tInt = tInt, !.delay = delay,
                                    !.pulsed = pulsed], TRUE)
    /\ UNCHANGED <<connection, abort, meas, sd>>
    /\ UNCHANGED ioVars
    /\ UNCHANGED extVars

\* a top-level call of voltageSweepDualSMU
CallDual ==
    /\ Idle
    /\ \E smus \in DualSmuPairs, list1 \in Lists, list2 \in Lists,
          tInt \in SweepTInts, delay \in Delays, pulsed \in PulsedArgs :
          SweepEnter([NoArgs EXCEPT !.fn = "dual", !.smu1 = smus[1], !.smu2 = smus[2],
                                    !.list1 = list1, !.list2 = list2,
                                    !.tInt = tInt, !.delay = delay,
                                    !.pulsed = pulsed], TRUE)
    /\ UNCHANGED <<connection, abort, meas, sd>>
    /\ UNCHANGED ioVars
    /\ UNCHANGED extVars

\* ------------------------------------------------------- specifications
\* a constructor that drops the name it is given
BindingUnnamed(kind, name) == [name |-> "", kind |-> kind, dict |-> {}]

\* MagicClass.__init__ / MagicFunction.__init__ / MagicPropertyList.__init__:
\* a binding object with its dotted name; dict holds the entries of __dict__
\* added after construction, as pairs <<key, [obj, val]>> (obj: a binding
\* object of the heap, or 0 for a plain value val)
Binding(kind, name) == [name |-> name, kind |-> kind, dict |-> {}]

\* Keithley2600Base.__init__: MagicClass.__init__(self, name='', parent=self)
Session == Binding("class", "")

NoOp == [op |-> "none"]

\* no namespace, registry or codec operation made yet
ExtIdle ==
    /\ heap = <<Session>>
    /\ first = {}
    /\ last = NoOp
    /\ hist = <<>>
    /\ _instances = {}
    /\ opened = <<>>

IoIdle ==
    /\ tpc = <<>>
    /\ lockOwner = "none"
    /\ wire = <<>>
    /\ replies = <<>>
    /\ resultVar = 0
    /\ calls = <<>>
    /\ got = <<>>

\* The session after construction: connect() succeeded or failed, the abort
\* event is as other threads left it, the instrument is idle with empty
\* buffers.
Init ==
    /\ connection \in BOOLEAN
    /\ abort \in BOOLEAN
    /\ busy = FALSE
    /\ pc = "idle"
    /\ args = NoArgs
    /\ log = <<>>
    /\ outcome = "none"
    /\ ret = <<>>
    /\ polls = 0
    /\ status = 0
    /\ inst \in {[linefreq |-> f, phase |-> "idle", sweeping |-> 0,
                  buf |-> EmptyBuffers] : f \in LineFreqs}
    /\ meas = NoMeas
    /\ sd = <<>>
    /\ IoIdle
    /\ ExtIdle

Next ==
    \/ CallSetIntegrationTime
    \/ CallSingle
    \/ CallDual
    \/ PollBegin
    \/ PollEnd
    \/ InstrStart
    \/ InstrFinish
    \/ AbortSet

Spec == Init /\ [][Next]_vars


\* ------------------------------------------------ measurement orchestrator
sign(x) == IF x > 0 THEN 1 ELSE IF x < 0 THEN -1 ELSE 0
abs(x) == IF x < 0 THEN -x ELSE x

\* an arange that leaves out the point before stop
arangeShort(start, stop, step) ==
    IF (step > 0 /\ start + step < stop) \/ (step < 0 /\ start + step > stop)
    THEN <<start>> ELSE <<>>

\* np.arange(start, stop, step) for a non-zero step
RECURSIVE arange(_, _, _)
arange(start, stop, step) ==
    IF (step > 0 /\ start < stop) \/ (step < 0 /\ start > stop)
    THEN <<start>> \o arange(start + step, stop, step)
    ELSE <<>>

\* np.full_like(list, v)
full_like(list, v) == [i \in 1..Len(list) |-> v]

\* np.flip(list, 0)
flip(list) == Reverse(list)

\* a fixed value of the outer loop: a voltage, or the text 'trailing'
Fixed(v) == [trailing |-> FALSE, v |-> v]
Trailing == [trailing |-> TRUE, v |-> 0]

\* the completion cue before the reset
BeepAndReset ==
    <<MagicFunction_call("beeper.beep", <<"0.3", "2400">>, <<>>),
      MagicFunction_call("reset", <<>>, <<>>)>>

\* self.reset() and self.beeper.beep(0.3, 2400)
ResetAndBeep ==
    <<MagicFunction_call("reset", <<>>, <<>>),
      MagicFunction_call("beeper.beep", <<"0.3", "2400">>, <<>>)>>

\* Entry of transferMeasurement / outputMeasurement (lines 1100-1112,
\* 1178-1189): busy, the abort event cleared, the collector created, the
\* inner sweep list built.  For step 0 np.arange raises: ZeroDivisionError
\* or, the step being a numpy scalar, ValueError, as the numpy build has it.
MeasEnter(m) ==
    LET step == sign(m.stop - m.start) * abs(m.step) IN
    /\ busy' = TRUE
    /\ abort' = FALSE
    /\ sd' = <<>>
    /\ IF step = 0
       THEN /\ meas' = [m EXCEPT !.stage = "exc"]
            /\ outcome' \in {"ZeroDivisionError", "ValueError"}
       ELSE /\ meas' = [m EXCEPT !.stage = "loop", !.i = 1,
                                 !.sweeplist = arange(m.start, m.stop + step, step)]
            /\ UNCHANGED outcome
    /\ UNCHANGED <<connection, pc, args, log, ret, polls, status, inst>>
    /\ UNCHANGED ioVars
    /\ UNCHANGED extVars

\* The head of `for Vdrain in VdList` (lines 1115-1127, 1191-1198): the loop
\* ends, or the abort event is seen, or the list paired with the inner
\* sweep list is built for the next fixed value.
MeasLoop ==
    /\ meas.op # "none" /\ meas.stage = "loop" /\ outcome = "none"
    /\ IF meas.i > Len(meas.fixed)
       THEN LET r == Run(ResetAndBeep) IN
            /\ log' = log \o r.log
            /\ IF r.exc # "none"
               THEN /\ outcome' = r.exc
                    /\ meas' = [meas EXCEPT !.stage = "exc"]
                    /\ UNCHANGED busy
               ELSE /\ outcome' = "returned"
                    /\ meas' = [meas EXCEPT !.stage = "done"]
                    /\ busy' = FALSE
       ELSE IF abort
       THEN LET r == Run(ResetAndBeep) IN
            /\ log' = log \o r.log
            /\ outcome' = IF r.exc # "none" THEN r.exc ELSE "returned"
            /\ meas' = [meas EXCEPT !.stage = IF r.exc # "none" THEN "exc" ELSE "done"]
            /\ UNCHANGED busy
       ELSE LET f == meas.fixed[meas.i] IN
            /\ IF f.trailing /\ meas.op = "output"
               THEN /\ outcome' = "ValueError"
                    /\ meas' = [meas EXCEPT !.stage = "exc"]
               ELSE /\ UNCHANGED outcome
                    /\ meas' = [meas EXCEPT
                          !.stage = "fwd_call",
                          !.paired = IF f.trailing THEN meas.sweeplist
                                     ELSE full_like(meas.sweeplist, f.v)]
            /\ UNCHANGED <<log, busy>>
    /\ UNCHANGED <<connection, abort, pc, args, ret, polls, status, inst, sd>>
    /\ UNCHANGED ioVars
    /\ UNCHANGED extVars

\* the arguments of the dual sweep the orchestrator runs: the swept channel
\* first (gate for a transfer curve, drain for an output curve)
MeasSweepArgs(m) ==
    [NoArgs EXCEPT !.fn = "dual",
                   !.smu1 = IF m.op = "transfer" THEN m.smu_gate ELSE m.smu_drain,
                   !.smu2 = IF m.op = "transfer" THEN m.smu_drain ELSE m.smu_gate,
                   !.list1 = m.sweeplist,
                   !.list2 = m.paired,
                   !.tInt = m.tInt, !.delay = m.delay, !.pulsed = m.pulsed]

\* `self.voltageSweepDualSMU(...)`: the forward or the backward sweep starts
MeasSweep ==
    /\ meas.op # "none" /\ meas.stage \in {"fwd_call", "rvs_call"} /\ outcome = "none"
    /\ SweepEnter(MeasSweepArgs(meas), FALSE)
    /\ meas' = [meas EXCEPT !.stage = IF meas.stage = "fwd_call" THEN "fwd" ELSE "rvs"]
    /\ UNCHANGED <<connection, abort, sd>>
    /\ UNCHANGED ioVars
    /\ UNCHANGED extVars

\* the leg sd.append receives from the sweep that just returned
Leg(m, r) ==
    [vFix |-> m.fixed[m.i],
     vSweep |-> r[1],
     iDrain |-> IF m.op = "transfer" THEN r[4] ELSE r[2],
     iGate |-> IF m.op = "transfer" THEN r[2] ELSE r[4]]

\* a collector that takes the leg whatever the abort event says
AppendLegAlways(m, r) == Append(sd, Leg(m, r))

\* `if not self.abort_event.is_set(): sd.append(...)`
AppendLeg(m, r) == IF ~abort THEN Append(sd, Leg(m, r)) ELSE sd

\* After the forward sweep (lines 1134-1139, 1204-1209): the leg is appended
\* unless the abort event is set, and both lists are flipped.
MeasAfterFwd ==
    /\ meas.op # "none" /\ meas.stage = "fwd" /\ pc = "ret" /\ outcome = "none"
    /\ sd' = AppendLeg(meas, ret)
    /\ meas' = [meas EXCEPT !.stage = "rvs_call",
                            !.sweeplist = flip(meas.sweeplist),
                            !.paired = flip(meas.paired)]
    /\ UNCHANGED <<connection, abort, busy, pc, args, log, outcome, ret, polls,
                   status, inst>>
    /\ UNCHANGED ioVars
    /\ UNCHANGED extVars

\* After the backward sweep (lines 1145-1146, 1215-1216): the leg is appended
\* unless the abort event is set, and the loop takes the next fixed value.
MeasAfterRvs ==
    /\ meas.op # "none" /\ meas.stage = "rvs" /\ pc = "ret" /\ outcome = "none"
    /\ sd' = AppendLeg(meas, ret)
    /\ meas' = [meas EXCEPT !.stage = "loop", !.i = meas.i + 1]
    /\ UNCHANGED <<connection, abort, busy, pc, args, log, outcome, ret, polls,
                   status, inst>>
    /\ UNCHANGED ioVars
    /\ UNCHANGED extVars

MeasOps == {"transfer", "output"}
MeasSmuPairs == {<<<<"smua">>, <<"smub">>>>, <<<<"display">>, <<"smub">>>>}
MeasSteps == {1, 2}
MeasPulsed == {"False"}
FixedValues == {Fixed(v) : v \in Volts} \cup {Trailing}
FixedLists == UNION {[1..n -> FixedValues] : n \in 1..MaxFixed}

\* a top-level call of transferMeasurement or outputMeasurement
CallMeasurement ==
    /\ Idle
    /\ \E op \in MeasOps, smus \in MeasSmuPairs, start \in Volts, stop \in Volts,
          step \in MeasSteps, fixed \in FixedLists, tInt \in SweepTInts,
          delay \in Delays, pulsed \in MeasPulsed :
          MeasEnter([op |-> op, smu_gate |-> smus[1], smu_drain |-> smus[2],
                     start |-> start, stop |-> stop, step |-> step,
                     fixed |-> fixed, tInt |-> tInt, delay |-> delay,
                     pulsed |-> pulsed, stage |-> "enter", i |-> 0,
                     sweeplist |-> <<>>, paired |-> <<>>])

NextMeas ==
    \/ CallMeasurement
    \/ MeasLoop
    \/ MeasSweep
    \/ MeasAfterFwd
    \/ MeasAfterRvs
    \/ PollBegin
    \/ PollEnd
    \/ InstrStart
    \/ InstrFinish
    \/ AbortSet

\* the orchestrator is exercised on 60 Hz mains
InitMeas == Init /\ inst.linefreq = 60

SpecMeas == InitMeas /\ [][NextMeas]_vars

\* ------------------------------------------------- concurrent dispatch
\* Threads that share one session (one transport, the class-level _lock) and
\* make dispatch calls: function invocations and property reads.
Threads == {"t1", "t2"}

\* the functions invoked and the properties read
CalledFunctions == {"smua.measure.v", "smub.measure.v"}
ReadProperties == {"localnode.linefreq", "smua.source.levelv"}

\* The instrument's side of the transport: what an expression evaluates to.
\* A measure function returns the reading of its channel, a property its
\* value, and `result` the global variable the last executed
\* `result = ...` line assigned.
InstrValues ==
    [e \in CalledFunctions \cup ReadProperties |->
        IF e = "smua.measure.v" THEN 1
        ELSE IF e = "smub.measure.v" THEN 2
        ELSE IF e = "localnode.linefreq" THEN 60
        ELSE 3]
InstrEval(expr) == IF expr = "result" THEN resultVar ELSE InstrValues[expr]

NoCall == [n |-> 0, kind |-> "none", name |-> ""]
NoReply == [req |-> <<>>, value |-> 0]

\* a line on the transport, with the request (thread, call number) it is part of
Request(t, line) == [line |-> line, req |-> <<t, calls[t].n + 1>>]
OwnRequest(t, line) == [line |-> line, req |-> <<t, calls[t].n>>]

\* MagicFunction.__call__, up to the call of _query: the unlocked _write of
\* 'result = name()'
CallFunction(t) ==
    /\ tpc[t] = "idle"
    /\ calls[t].n < MaxCalls
    /\ \E name \in CalledFunctions :
          /\ calls' = [calls EXCEPT ![t] = [n |-> calls[t].n + 1,
                                             kind |-> "function", name |-> name]]
          /\ IF connection
             THEN /\ wire' = Append(wire, Request(t, WriteLine("call", name, <<>>, <<>>)))
                  /\ tpc' = [tpc EXCEPT ![t] = "query"]
             ELSE /\ tpc' = [tpc EXCEPT ![t] = "exc"]
                  /\ UNCHANGED wire
    /\ got' = [got EXCEPT ![t] = NoReply]
    /\ UNCHANGED <<lockOwner, replies, resultVar>>
    /\ UNCHANGED sessionVars
    /\ UNCHANGED extVars

\* MagicClass.__getattr__ of a property: the call of _query(name)
ReadProperty(t) ==
    /\ tpc[t] = "idle"
    /\ calls[t].n < MaxCalls
    /\ \E name \in ReadProperties :
          calls' = [calls EXCEPT ![t] = [n |-> calls[t].n + 1,
                                          kind |-> "read", name |-> name]]
    /\ tpc' = [tpc EXCEPT ![t] = "query"]
    /\ got' = [got EXCEPT ![t] = NoReply]
    /\ UNCHANGED <<lockOwner, wire, replies, resultVar>>
    /\ UNCHANGED sessionVars
    /\ UNCHANGED extVars

\* a _query that sends without taking the lock
LockNotTaken(t) == TRUE

\* `with self._lock`: the re-entrant lock is free or held by the caller
LockFree(t) == lockOwner \in {"none", t}

\* the expression a thread's _query prints
Queried(t) == IF calls[t].kind = "function" THEN "result" ELSE calls[t].name

\* Keithley2600Base._query, first half: the connection check, the lock, and
\* the request line of connection.query
QuerySend(t) ==
    /\ tpc[t] = "query"
    /\ IF ~connection
       THEN /\ tpc' = [tpc EXCEPT ![t] = "exc"]
            /\ UNCHANGED <<lockOwner, wire>>
       ELSE /\ LockFree(t)
            /\ lockOwner' = t
            /\ wire' = Append(wire, OwnRequest(t, QueryLine(Queried(t))))
            /\ tpc' = [tpc EXCEPT ![t] = "sent"]
    /\ UNCHANGED <<replies, resultVar, calls, got>>
    /\ UNCHANGED sessionVars
    /\ UNCHANGED extVars

\* Keithley2600Base._query, second half: connection.query reads one response
\* line, the lock is released, the value is returned
QueryRecv(t) ==
    /\ tpc[t] = "sent"
    /\ replies # <<>>
    /\ got' = [got EXCEPT ![t] = Head(replies)]
    /\ replies' = Tail(replies)
    /\ lockOwner' = IF lockOwner = t THEN "none" ELSE lockOwner
    /\ tpc' = [tpc EXCEPT ![t] = "idle"]
    /\ UNCHANGED <<wire, resultVar, calls>>
    /\ UNCHANGED sessionVars
    /\ UNCHANGED extVars

\* the instrument executes the next line it received: an assignment to
\* `result`, or a print whose value becomes the next response line
InstrExec ==
    /\ wire # <<>>
    /\ wire' = Tail(wire)
    /\ LET r == Head(wire) IN
       IF r.line.op = "write"
       THEN /\ resultVar' = InstrEval(r.line.name)
            /\ UNCHANGED replies
       ELSE /\ replies' = Append(replies, [req |-> r.req,
                                           value |-> InstrEval(r.line.name)])
            /\ UNCHANGED resultVar
    /\ UNCHANGED <<tpc, lockOwner, calls, got>>
    /\ UNCHANGED sessionVars
    /\ UNCHANGED extVars

\* the session after construction, shared by the threads
InitIO ==
    /\ connection \in BOOLEAN
    /\ abort = FALSE
    /\ busy = FALSE
    /\ pc = "idle"
    /\ args = NoArgs
    /\ log = <<>>
    /\ outcome = "none"
    /\ ret = <<>>
    /\ polls = 0
    /\ status = 0
    /\ inst = [linefreq |-> InstrValues["localnode.linefreq"], phase |-> "idle",
               sweeping |-> 0, buf |-> EmptyBuffers]
    /\ meas = NoMeas
    /\ sd = <<>>
    /\ tpc = [t \in Threads |-> "idle"]
    /\ lockOwner = "none"
    /\ wire = <<>>
    /\ replies = <<>>
    /\ resultVar = 0
    /\ calls = [t \in Threads |-> NoCall]
    /\ got = [t \in Threads |-> NoReply]
    /\ ExtIdle

NextIO ==
    \/ \E t \in Threads : CallFunction(t)
    \/ \E t \in Threads : ReadProperty(t)
    \/ \E t \in Threads : QuerySend(t)
    \/ \E t \in Threads : QueryRecv(t)
    \/ InstrExec

SpecIO == InitIO /\ [][NextIO]_vars

\* ---------------------------------------------------- namespace resolver
\* __dict__ of a binding object, as a set of pairs <<key, entry>>
DictKeys(d) == {p[1] : p \in d}
DictGet(d, k) == (CHOOSE p \in d : p[1] = k)[2]
DictPut(d, k, v) == {p \in d : p[1] # k} \cup {<<k, v>>}
Ref(obj) == [obj |-> obj, val |-> ""]
Plain(val) == [obj |-> 0, val |-> val]

\* The attribute access o.attr_name on the MagicClass object o of heap h.
\* Python finds a key of __dict__ by the normal lookup; otherwise
\* MagicClass.__getattr__ runs: object.__getattr__ does not exist, so the
\* AttributeError branch looks up self.__dict__[attr_name], and its KeyError
\* leads to __get_global_handler, which stores new Function and Group
\* bindings under the key new_name (the dotted name), and PropertyList
\* bindings not at all.
getattr(h, o, attr_name) ==
    LET self == h[o]
        new_name == Dot(self.name, attr_name)
        handler == Handler(self.name, attr_name)
        id == Len(h) + 1
    IN  IF attr_name \in DictKeys(self.dict)
        THEN LET e == DictGet(self.dict, attr_name) IN
             [heap |-> h, obj |-> e.obj,
              kind |-> IF e.obj = 0 THEN "field" ELSE h[e.obj].kind,
              stmt |-> Stmt(<<>>, "none"), val |-> e.val]
        ELSE IF handler \in {"function", "class"}
        THEN [heap |-> Append([h EXCEPT ![o].dict = DictPut(@, new_name, Ref(id))],
                              Binding(handler, new_name)),
              obj |-> id, kind |-> handler, stmt |-> Stmt(<<>>, "none"), val |-> ""]
        ELSE IF handler = "list"
        THEN [heap |-> Append(h, Binding("list", new_name)),
              obj |-> id, kind |-> "list", stmt |-> Stmt(<<>>, "none"), val |-> ""]
        ELSE [heap |-> h, obj |-> 0, kind |-> handler,
              stmt |-> GetAttr(self.name, attr_name), val |-> ""]

\* the chain of accesses k.a.b... along a path of group names, from object o
RECURSIVE Walk(_, _, _)
Walk(h, o, path) ==
    IF path = <<>> THEN [heap |-> h, obj |-> o]
    ELSE LET r == getattr(h, o, Head(path)) IN Walk(r.heap, r.obj, Tail(path))

\* MagicClass.__setattr__: the branch an assignment to attr_name takes, with
\* the read-only test left out
SetAttrBranchNoConst(attr_name) ==
    IF attr_name \in PROPERTIES THEN "write" ELSE "field"

\* MagicClass.__setattr__: the branch an assignment to attr_name takes
SetAttrBranch(attr_name) ==
    IF attr_name \in PROPERTIES THEN "write"
    ELSE IF attr_name \in CONSTS THEN "readonly"
    ELSE "field"

\* the operations made so far, oldest first
Ops == IF last = NoOp THEN hist ELSE Append(hist, last)
NOps == Len(Ops)
Record(op) ==
    /\ NOps < MaxOps
    /\ last' = op
    /\ hist' = Ops

\* the paths read, the nodes assigned to, and the lines the instrument answers
GetPaths ==
    {<<"smua">>, <<"reset">>, <<"smua", "measure">>, <<"beeper", "beep">>,
     <<"smua", "nvbuffer1", "readings">>,
     <<"localnode", "linefreq">>, <<"smua", "ENABLE">>,
     <<"bogus">>, <<"smua", "bogus">>}
NodePaths == {<<"smua">>, <<"smua", "measure">>}
AssignAttrs == {"nplc", "ENABLE", "bogus"}
AssignValues == {PyBool(TRUE)}
FunctionPaths == {<<"reset">>, <<"beeper", "beep">>}
ListPaths == {<<"smua", "nvbuffer1", "readings">>}
ResponseLines == {<<"6", "0">>, <<"n", "i", "l">>}

\* the read k.<path>
NsGet ==
    \E path \in GetPaths, line \in ResponseLines :
        LET w == Walk(heap, 1, Front(path))
            g == getattr(w.heap, w.obj, Last(path))
            r == Run(<<g.stmt>>)
            bound == g.kind \in {"class", "function", "list"}
        IN  /\ Record([op |-> "get", path |-> path, conn |-> connection,
                       node |-> w.obj,
                       kind |-> g.kind, obj |-> g.obj, io |-> r.log, exc |-> r.exc,
                       line |-> IF g.kind = "value" /\ r.exc = "none" THEN line ELSE <<>>,
                       value |-> IF g.kind = "value" /\ r.exc = "none"
                                 THEN parse_response(line)
                                 ELSE IF g.kind = "field" THEN Text(<<g.val>>)
                                 ELSE Nil,
                       before |-> heap])
            /\ heap' = g.heap
            /\ first' = IF bound /\ path \notin DictKeys(first)
                        THEN first \cup {<<path, g.obj>>} ELSE first
            /\ log' = log \o r.log
            /\ UNCHANGED <<connection, abort, busy, pc, args, outcome, ret, polls,
                           status, inst, meas, sd, _instances, opened>>
            /\ UNCHANGED ioVars

\* the assignment k.<path>.attr_name = value
NsSet ==
    \E path \in NodePaths, attr_name \in AssignAttrs, value \in AssignValues :
        LET w == Walk(heap, 1, path)
            self == w.heap[w.obj]
            branch == SetAttrBranch(attr_name)
            stmt == IF branch = "write"
                    THEN _write(WriteLine("set", Dot(self.name, attr_name),
                                          <<str(_convert_input(value))>>, <<>>))
                    ELSE IF branch = "readonly" THEN Raise("ValueError")
                    ELSE Stmt(<<>>, "none")
            r == Run(<<stmt>>)
        IN  /\ Record([op |-> "set", path |-> path, attr |-> attr_name,
                       conn |-> connection, kind |-> branch, obj |-> w.obj,
                       io |-> r.log, exc |-> r.exc, before |-> w.heap])
            /\ heap' = IF branch = "field"
                       THEN [w.heap EXCEPT ![w.obj].dict =
                                DictPut(@, attr_name, Plain(str(value)))]
                       ELSE w.heap
            /\ log' = log \o r.log
            /\ UNCHANGED <<connection, abort, busy, pc, args, outcome, ret, polls,
                           status, inst, meas, sd, first, _instances, opened>>
            /\ UNCHANGED ioVars

\* the invocation k.<path>(): the binding is resolved, then called
NsCall ==
    \E path \in FunctionPaths, line \in ResponseLines :
        LET w == Walk(heap, 1, Front(path))
            g == getattr(w.heap, w.obj, Last(path))
            r == Run(<<MagicFunction_call(g.heap[g.obj].name, <<>>, <<>>)>>)
        IN  /\ Record([op |-> "call", path |-> path, conn |-> connection,
                       kind |-> g.kind, obj |-> g.obj, io |-> r.log, exc |-> r.exc,
                       value |-> IF r.exc = "none" THEN parse_response(line) ELSE Nil,
                       before |-> heap])
            /\ heap' = g.heap
            /\ log' = log \o r.log
            /\ UNCHANGED <<connection, abort, busy, pc, args, outcome, ret, polls,
                           status, inst, meas, sd, first, _instances, opened>>
            /\ UNCHANGED ioVars

\* the indexed accesses k.<path>[1] and k.<path>[1] = value
NsItem ==
    \E path \in ListPaths, put \in BOOLEAN, value \in AssignValues :
        LET w == Walk(heap, 1, Front(path))
            g == getattr(w.heap, w.obj, Last(path))
            name == g.heap[g.obj].name
            r == Run(<<IF put THEN SetItem(name, 1, <<str(_convert_input(value))>>, <<>>)
                       ELSE GetItem(name, 1)>>)
        IN  /\ Record([op |-> IF put THEN "setitem" ELSE "getitem", path |-> path,
                       conn |-> connection, kind |-> g.kind, obj |-> g.obj,
                       io |-> r.log, exc |-> r.exc, before |-> heap])
            /\ heap' = g.heap
            /\ log' = log \o r.log
            /\ UNCHANGED <<connection, abort, busy, pc, args, outcome, ret, polls,
                           status, inst, meas, sd, first, _instances, opened>>
            /\ UNCHANGED ioVars

\* Keithley2600Base.connect: the transport opens, or connection is set False
connect ==
    \E ok \in BOOLEAN :
        /\ Record([op |-> "connect", conn |-> connection, io |-> <<>>,
                   exc |-> "none", ok |-> ok])
        /\ connection' = ok
        /\ UNCHANGED <<abort, busy, pc, args, log, outcome, ret, polls, status,
                       inst, meas, sd, heap, first, _instances, opened>>
        /\ UNCHANGED ioVars

\* Keithley2600Base.disconnect: the transport is closed and the instance
\* attribute deleted, which leaves the class attribute connection = False
disconnect ==
    /\ Record([op |-> "disconnect", conn |-> connection, io |-> <<>>,
               exc |-> "none"])
    /\ connection' = FALSE
    /\ UNCHANGED <<abort, busy, pc, args, log, outcome, ret, polls, status,
                   inst, meas, sd, heap, first, _instances, opened>>
    /\ UNCHANGED ioVars

NextNs ==
    \/ NsGet
    \/ NsSet
    \/ NsCall
    \/ NsItem
    \/ connect
    \/ disconnect

\* a session after construction: connect() succeeded or failed
InitNs == Init /\ ~abort /\ inst.linefreq = 60

SpecNs == InitNs /\ [][NextNs]_vars

\* ------------------------------------------------------ session registry
Addresses == {"TCPIP0::192.168.2.121::INSTR", "TCPIP0::192.168.2.122::INSTR"}

\* Keithley2600(*args): the constructor connects; the transport opens ("ok"),
\* connect() logs the failure and leaves connection = False ("fail"), or the
\* ValueError of an invalid address is raised again ("raise")
ConnectOutcomes == {"ok", "fail", "raise"}

\* the Keithley2600 objects constructed so far
Constructed == Len(SelectSeq(Ops, LAMBDA o : o.op = "new" /\ o.created))

\* a registry that never finds an address
NeverRegistered(address) == FALSE

\* `args[0] in cls._instances`
Registered(address) == address \in DictKeys(_instances)

\* Keithley2600Factory.__new__
Keithley2600Factory ==
    \E address \in Addresses, connected \in ConnectOutcomes :
        /\ IF Registered(address)
           THEN /\ Record([op |-> "new", address |-> address, created |-> FALSE,
                           opens |-> FALSE, exc |-> "none",
                           instance |-> DictGet(_instances, address)])
                /\ UNCHANGED <<_instances, opened>>
           ELSE LET instance == Constructed + 1 IN
                /\ Record([op |-> "new", address |-> address, created |-> TRUE,
                           opens |-> connected = "ok",
                           exc |-> IF connected = "raise" THEN "ValueError" ELSE "none",
                           instance |-> IF connected = "raise" THEN 0 ELSE instance])
                /\ _instances' = IF connected = "raise" THEN _instances
                                 ELSE DictPut(_instances, address, instance)
                /\ opened' = IF connected = "ok" THEN Append(opened, address) ELSE opened
        /\ UNCHANGED <<connection, abort, busy, pc, args, log, outcome, ret, polls,
                       status, inst, meas, sd, heap, first>>
        /\ UNCHANGED ioVars

NextFactory == Keithley2600Factory

\* the registry is empty when the class is loaded
InitFactory == Init /\ ~connection /\ ~abort /\ inst.linefreq = 60

SpecFactory == InitFactory /\ [][NextFactory]_vars

\* ------------------------------------------------- the codec on its own
\* values handed to _convert_input
InputValues ==
    LET Primitives == {PyInt(1), PyInt(-2), PyStr("a"), PyBool(TRUE)}
        Collections ==
            {[PyList(items) EXCEPT !.t = t] :
                t \in TO_TSP_LIST,
                items \in UNION {[1..n -> Primitives] : n \in 0..MaxItems}}
        Objects ==
            {PyNode("class", "smua"), PyNode("class", "smua.nvbuffer1"),
             PyNode("function", "beeper.beep"),
             PyNode("list", "smua.nvbuffer1.readings")}
    IN  {PyBool(TRUE), PyBool(FALSE), PyInt(0), PyInt(3), PyStr("true"),
         PyStr("smua.OUTPUT_ON")} \cup Collections \cup Objects

\* response lines handed to parse_response
InputLines ==
    LET LineChars == {"1", "5", ".", "e", "-", "+", " ", "n", "i", "l", "a", "f", "N"}
        LongLines ==
            {<<"t", "r", "u", "e">>, <<"f", "a", "l", "s", "e">>, <<"f", "o", "o">>,
             <<"T", "r", "u", "e">>, <<"t", "r", "u", "e", " ">>, <<"F", "A", "L", "S", "E">>,
             <<"1", ".", "5", "e", "-", "1", "5">>, <<"-", "1", "5", "0", ".", "0">>,
             <<"I", "n", "f", "i", "n", "i", "t", "y">>, <<"-", "i", "n", "f">>,
             <<"1", "e", "5", "e", "5">>, <<"1", ".", "5", ".", "1">>,
             <<" ", "n", "i", "l">>, <<"n", "i", "l", " ">>,
             <<"K", "e", "i", "t", "h", "l", "e", "y">>}
    IN  UNION {[1..n -> LineChars] : n \in 0..MaxLine} \cup LongLines

\* self._convert_input(value)
Encode ==
    /\ last.op = "value"
    /\ last' = [op |-> "encode", value |-> last.value,
                result |-> _convert_input(last.value)]
    /\ UNCHANGED <<heap, first, hist, _instances, opened>>
    /\ UNCHANGED sessionVars
    /\ UNCHANGED ioVars

\* self.parse_response(r)
Decode ==
    /\ last.op = "line"
    /\ last' = [op |-> "decode", line |-> last.line,
                result |-> parse_response(last.line)]
    /\ UNCHANGED <<heap, first, hist, _instances, opened>>
    /\ UNCHANGED sessionVars
    /\ UNCHANGED ioVars

NextCodec == Encode \/ Decode

InitCodec ==
    /\ connection = FALSE /\ abort = FALSE /\ busy = FALSE
    /\ pc = "idle" /\ args = NoArgs /\ log = <<>> /\ outcome = "none"
    /\ ret = <<>> /\ polls = 0 /\ status = 0
    /\ inst = [linefreq |-> 60, phase |-> "idle", sweeping |-> 0, buf |-> EmptyBuffers]
    /\ meas = NoMeas /\ sd = <<>>
    /\ IoIdle
    /\ heap = <<Session>> /\ first = {} /\ hist = <<>>
    /\ _instances = {} /\ opened = <<>>
    /\ last \in {[op |-> "value", value |-> v] : v \in InputValues}
                    \cup {[op |-> "line", line |-> l] : l \in InputLines}

SpecCodec == InitCodec /\ [][NextCodec]_vars

\* ------------------------------------- the orchestrator losing its transport
\* another thread calls disconnect() during a run that has appended a leg:
\* the next _write or _query of the run raises KeithleyIOError
MeasDisconnect ==
    /\ meas.op # "none" /\ outcome = "none" /\ connection
    /\ Len(sd) >= 1
    /\ disconnect

\* runs that no thread aborts, with the transport lost at any moment
NextMeasLost ==
    \/ CallMeasurement
    \/ MeasLoop
    \/ MeasSweep
    \/ MeasAfterFwd
    \/ MeasAfterRvs
    \/ PollBegin
    \/ PollEnd
    \/ InstrStart
    \/ InstrFinish
    \/ MeasDisconnect

SpecMeasLost == InitMeas /\ [][NextMeasLost]_vars

\* ------------------------------------------------------- the voltage ramp
\* rampToVoltage(smu, targetVolt, delay, stepSize) after its _check_smu, as
\* the statements it runs; Vcurr is the value the instrument answers to the
\* read of smu.source.levelv.  The logger line and the sleeps send nothing.
rampToVoltage(smu, targetVolt, stepSize, Vcurr) ==
    LET s == Dotted(smu)
        step == sign(targetVolt - Vcurr) * abs(stepSize)
        levels == arange(Vcurr, targetVolt + step, step)
        v == MagicFunction_call(Dot(Dot(s, "measure"), "v"), <<>>, <<>>)
    IN  SetToConst(Dot(s, "source"), "output", s, "OUTPUT_ON")
        \o <<GetAttr(Dot(s, "source"), "levelv")>>
        \o IF Vcurr = targetVolt THEN <<>>
           ELSE SetToConst("display.smua.measure", "func", "display", "MEASURE_DCVOLTS")
                \o SetToConst("display.smub.measure", "func", "display", "MEASURE_DCVOLTS")
                \o Flatten([i \in 1..Len(levels) |->
                               <<SetAttr(Dot(s, "source"), "levelv", <<>>, <<levels[i]>>),
                                 v>>])
                \o <<v, MagicFunction_call("beeper.beep", <<"0.3", "2400">>, <<>>)>>

\* a top-level call of rampToVoltage with a non-zero stepSize, the source
\* being at the level Vcurr
CallRamp ==
    /\ Idle
    /\ \E smu \in SmuArgs, Vcurr \in -MaxVolt..MaxVolt,
          targetVolt \in -MaxVolt..MaxVolt, stepSize \in {1, 2, -2} :
          LET r == IF _check_smu(smu)
                   THEN Run(rampToVoltage(smu, targetVolt, stepSize, Vcurr))
                   ELSE [log |-> <<>>, exc |-> "AssertionError"]
          IN  /\ args' = [NoArgs EXCEPT !.fn = "rampToVoltage", !.smu1 = smu]
              /\ last' = [op |-> "ramp", Vcurr |-> Vcurr, targetVolt |-> targetVolt,
                          stepSize |-> stepSize]
              /\ log' = r.log
              /\ pc' = IF r.exc = "none" THEN "ret" ELSE "exc"
              /\ outcome' = IF r.exc = "none" THEN "returned" ELSE r.exc
    /\ UNCHANGED <<connection, abort, busy, ret, polls, status, inst, meas, sd>>
    /\ UNCHANGED <<heap, first, hist, _instances, opened>>
    /\ UNCHANGED ioVars

SpecRamp == Init /\ [][CallRamp]_vars

\* ------------------------------------------------ the polls without end
\* One more pass of a status loop after MaxPolls passes that did not end it:
\* `status = self.status.operation.sweeping.condition` reads the same value
\* again (0 in the loop that waits for the begin, non-zero in the loop that
\* waits for the end) and the thread goes to time.sleep(0.1).  These queries
\* are not added to log, which keeps the first MaxPolls of them.
PollAgain ==
    /\ pc \in {"poll_begin", "poll_end"}
    /\ connection
    /\ polls = MaxPolls
    /\ IF pc = "poll_begin" THEN WaitsForBegin(inst.sweeping) ELSE inst.sweeping > 0
    /\ status' = inst.sweeping
    /\ pc' = IF pc = "poll_begin" THEN "sleep_begin" ELSE "sleep_end"
    /\ UNCHANGED <<connection, abort, busy, args, log, outcome, ret, polls, inst,
                   meas, sd>>
    /\ UNCHANGED ioVars
    /\ UNCHANGED extVars

\* time.sleep(0.1) returns and the loop tests its condition again
Sleep ==
    /\ pc \in {"sleep_begin", "sleep_end"}
    /\ pc' = IF pc = "sleep_begin" THEN "poll_begin" ELSE "poll_end"
    /\ UNCHANGED <<connection, abort, busy, args, log, outcome, ret, polls, status,
                   inst, meas, sd>>
    /\ UNCHANGED ioVars
    /\ UNCHANGED extVars

NextLive ==
    \/ CallSingle
    \/ CallDual
    \/ PollBegin
    \/ PollEnd
    \/ PollAgain
    \/ Sleep
    \/ InstrStart
    \/ InstrFinish

\* a session with its transport open that no thread aborts
InitLive == Init /\ connection /\ ~abort

\* The steps of PollEnd, told by what they change: a pass of the second
\* loop either leaves it (the call returns or raises) or counts one more
\* poll.  No other action of NextLive makes such a step, and the guard is
\* that of PollEnd, so fairness of PollEndStep is fairness of PollEnd.
PollEndStep ==
    /\ pc = "poll_end"
    /\ inst.sweeping = 0 \/ polls < MaxPolls
    /\ \/ pc' \in {"ret", "exc"} /\ polls' \in {0, polls}
       \/ pc' = pc /\ polls' = polls + 1

\* The calling thread keeps running: each pass of a status loop and each
\* sleep is eventually made.  The instrument, once triggered, begins its
\* sweep and, once sweeping, ends it.
SpecLive ==
    /\ InitLive
    /\ [][NextLive]_vars
    /\ WF_vars(PollBegin) /\ WF_<<pc, polls>>(PollEndStep) /\ WF_vars(PollAgain)
    /\ WF_vars(Sleep) /\ WF_vars(InstrStart) /\ WF_vars(InstrFinish)

\* ================================================================ claims
Writes(l) == SelectSeq(l, LAMBDA e : e.op = "write")
Queries(l) == SelectSeq(l, LAMBDA e : e.op = "query")

\* a top-level sweep engine call has been made
TopSweep == args.fn \in {"single", "dual"} /\ meas.op = "none" /\ pc # "idle"

\* the call returned at its entry check of the abort event
EarlyReturn == pc = "ret" /\ log = <<>> /\ ret = EmptyResult(args)

ConfigErrors == {"AssertionError", "ValueError", "TypeError"}

\* the names of the commands that change the state of a channel
ChannelSuffixes ==
    {"trigger.source.linearv", "trigger.source.listv", "trigger.source.action",
     "trigger.source.stimulus", "measure.nplc", "measure.delay",
     "measure.autorangei", "source.func", "source.output", "nvbuffer1.clear",
     "nvbuffer2.clear", "nvbuffer1.clearcache", "nvbuffer2.clearcache",
     "trigger.count", "trigger.measure.action", "trigger.measure.iv",
     "trigger.measure.stimulus", "trigger.endpulse.action",
     "trigger.endsweep.action", "trigger.endpulse.stimulus",
     "trigger.arm.stimulus", "trigger.initiate"}
ChannelCommands == {Dot(s, x) : s \in SMU_LIST, x \in ChannelSuffixes}
ChannelWrites(l) == WritesTo(l, ChannelCommands)

\* the source configuration commands sent for channel smu
SourceWrites(l, smu) ==
    WritesTo(l, {Dot(Dot(Dot(Dotted(smu), "trigger"), "source"), f) :
                    f \in {"linearv", "listv"}})

\* the last operation was the read of a path that produced a binding
GotBinding ==
    last.op = "get" /\ last.exc = "none" /\ last.kind \in {"class", "function", "list"}

\* C11: every repeated resolution of a dotted path that resolves to a Group,
\* Function or PropertyList binding returns the binding object created on
\* the first resolution of that path.
C11_RepeatedResolutionSameBinding ==
    GotBinding => <<last.path, last.obj>> \in first

\* the name read last is a scalar property or a constant, by the schema sets
ScalarName(path) ==
    /\ Last(path) \in PROPERTIES \cup CONSTS
    /\ Last(path) \notin PROPERTY_LISTS
    /\ Dotted(path) \notin PROPERTY_LISTS

\* the reads of path made on an open transport so far
ReadsOf(path) ==
    SelectSeq(Ops, LAMBDA o : o.op = "get" /\ o.path = path /\ o.conn)

\* C12: with a transport open, each read of a scalar property or constant
\* sends exactly one query print(<path>) and returns the decoded response
\* line, on the first and on every later access; resolving a Group, Function
\* or PropertyList binding sends no write and no query.
C12_ScalarReadQueriesEachTime ==
    /\ (last.op = "get" /\ last.conn /\ ScalarName(last.path)) =>
          /\ last.exc = "none"
          /\ last.io = <<QueryLine(Dotted(last.path))>>
          /\ last.value = parse_response(last.line)
    /\ \A path \in GetPaths : ScalarName(path) =>
          Len(SelectSeq(log, LAMBDA e : e = QueryLine(Dotted(path))))
              = Len(ReadsOf(path))
    /\ GotBinding => last.io = <<>>

\* the same scalar property has been read three times, each with its query
C12_Witness ==
    /\ last.op = "get" /\ last.path = <<"localnode", "linefreq">>
    /\ Len(ReadsOf(last.path)) = 3
    /\ last.io = <<QueryLine("localnode.linefreq")>>
    /\ last.value = Number(6, 1)
    /\ Len(log) = 3

\* a thread is between the send of its print request and its response line
InFlight(t) == tpc[t] = "sent"

\* the print requests sent and not yet answered to their sender
PendingQueries ==
    Len(SelectSeq(wire, LAMBDA r : r.line.op = "query")) + Len(replies)

\* C1: for every interleaving of callers that share one transport, query
\* round trips never overlap: at most one query is between its request and
\* its response, and every response a query received answers its own request.
C1_QueryRoundTripsSerialized ==
    /\ Cardinality({t \in Threads : InFlight(t)}) <= 1
    /\ PendingQueries <= 1
    /\ \A t \in Threads : got[t] # NoReply => got[t].req = <<t, calls[t].n>>

\* one thread holds the lock with its second query in flight while the other
\* has reached _query and waits for the lock
C1_Witness ==
    /\ connection
    /\ InFlight("t1") /\ lockOwner = "t1" /\ calls["t1"].n = 2
    /\ tpc["t2"] = "query" /\ calls["t2"].n >= 1

\* C2: a function invocation returns the return value of that same
\* invocation, for every interleaving of callers invoking functions on the
\* same transport.
C2_FunctionReturnsOwnValue ==
    \A t \in Threads :
        (calls[t].kind = "function" /\ got[t] # NoReply)
            => got[t].value = InstrValues[calls[t].name]

\* C3: voltageSweepDualSMU called with two voltage lists of different lengths
\* fails with a configuration error (the assertion) and sends no write and no
\* query, whatever the other arguments and whatever the abort flag.
C3_LengthMismatchRejected ==
    (TopSweep /\ args.fn = "dual" /\ Len(args.list1) # Len(args.list2))
        => (outcome = "AssertionError" /\ pc = "exc" /\ log = <<>>)

C3_Witness ==
    /\ TopSweep /\ args.fn = "dual"
    /\ Len(args.list1) = 2 /\ Len(args.list2) = 3
    /\ _check_smu(args.smu1) /\ _check_smu(args.smu2)
    /\ connection /\ ~abort
    /\ outcome = "AssertionError"

\* C4: when the abort flag is set at the time voltageSweepSingleSMU or
\* voltageSweepDualSMU is called with valid arguments, the call returns empty
\* result sequences for every channel and sends no write and no query.
C4_PresetAbortReturnsEmpty ==
    [][(Idle /\ abort /\ args'.fn \in {"single", "dual"} /\ InputChecks(args'))
          => (/\ outcome' = "returned"
              /\ ret' = EmptyResult(args')
              /\ \A k \in 1..Len(ret') : ret'[k] = <<>>
              /\ Len(ret') = 2 * Len(Channels(args'))
              /\ log' = <<>>)]_vars

C4_Witness ==
    /\ TopSweep /\ args.fn = "dual" /\ InputChecks(args)
    /\ abort /\ connection
    /\ outcome = "returned" /\ ret = <<<<>>, <<>>, <<>>, <<>>>> /\ log = <<>>

\* C5: a sweep called with a pulsed argument that is neither true nor false
\* fails with a configuration error before that call has sent any write (the
\* other arguments valid, a transport open, no abort at entry).
C5_NonBoolPulsedRejected ==
    (/\ TopSweep /\ InputChecks(args) /\ connection /\ ~EarlyReturn
     /\ args.pulsed \notin {"True", "False"}
     /\ Len(args.list1) >= 2
     /\ args.fn = "dual" => Len(args.list2) >= 2
     /\ args.tInt * inst.linefreq >= NplcMin
     /\ args.tInt * inst.linefreq <= NplcMax)
        => (outcome \in ConfigErrors /\ Writes(log) = <<>>)

\* C6: when the integration time times the line frequency lies outside
\* [0.001, 25] PLC the sweep fails with a configuration error and has sent no
\* write that changes channel state.
C6_BadIntegrationTimeBeforeChannelState ==
    (/\ TopSweep /\ InputChecks(args) /\ connection /\ ~EarlyReturn
     /\ Len(args.list1) >= 2
     /\ args.fn = "dual" => Len(args.list2) >= 2
     /\ \/ args.tInt * inst.linefreq < NplcMin
        \/ args.tInt * inst.linefreq > NplcMax)
        => (outcome \in ConfigErrors /\ ChannelWrites(log) = <<>>)

\* the call setIntegrationTime(smu, tInt) was made with a valid smu while a
\* transport was open, so that the line frequency was read
IntegrationTimeCall ==
    /\ args.fn = "setIntegrationTime" /\ pc # "idle"
    /\ _check_smu(args.smu1) /\ connection

NplcName == Dot(Dot(Dotted(args.smu1), "measure"), "nplc")

\* C7: setIntegrationTime(smu, tInt) with line frequency f writes
\* measure.nplc = tInt*f exactly when 0.001 <= tInt*f <= 25, both bounds
\* accepted, and otherwise raises a configuration error without writing
\* measure.nplc.
C7_IntegrationTimeRange ==
    IntegrationTimeCall =>
        LET nplc == args.tInt * inst.linefreq IN
        IF NplcMin <= nplc /\ nplc <= NplcMax
        THEN /\ outcome = "returned"
             /\ Writes(log) = <<WriteLine("set", NplcName, <<>>, <<nplc>>)>>
        ELSE /\ outcome = "ValueError"
             /\ Writes(log) = <<>>

\* at 60 Hz, tInt = 25/60 s gives exactly 25 PLC and is written
C7_Witness ==
    /\ IntegrationTimeCall
    /\ inst.linefreq = 60 /\ args.tInt = 25000
    /\ outcome = "returned"
    /\ Writes(log) = <<WriteLine("set", NplcName, <<>>, <<NplcMax>>)>>

\* C8 as stated: at 60 Hz, tInt = 0.0001 s and tInt = 1.0 s both raise a
\* configuration error.
C8_BothRejected ==
    (IntegrationTimeCall /\ inst.linefreq = 60 /\ args.tInt \in {6, 60000})
        => outcome = "ValueError"

\* C8 amended: at 60 Hz, tInt = 1.0 s (60 PLC) raises a configuration error
\* and writes nothing, while tInt = 0.0001 s (0.006 PLC, inside [0.001, 25])
\* is accepted and measure.nplc = 0.006 is written.
C8_OnlyOneSecondRejected ==
    (IntegrationTimeCall /\ inst.linefreq = 60)
        => /\ args.tInt = 60000 => (outcome = "ValueError" /\ Writes(log) = <<>>)
           /\ args.tInt = 6 =>
                 /\ outcome = "returned"
                 /\ Writes(log) = <<WriteLine("set", NplcName, <<>>, <<360>>)>>

C8_Witness ==
    /\ IntegrationTimeCall /\ inst.linefreq = 60 /\ args.tInt = 6
    /\ outcome = "returned" /\ Len(Writes(log)) = 1

\* all consecutive differences of the list are equal
AllDiffsEqual(list) ==
    \A i, j \in 1..(Len(list) - 1) : list[i + 1] - list[i] = list[j + 1] - list[j]

\* the one source configuration command the claim expects for a list
ExpectedSource(smu, list) ==
    LET src == Dot(Dot(Dotted(smu), "trigger"), "source") IN
    IF AllDiffsEqual(list)
    THEN WriteLine("call", Dot(src, "linearv"), <<>>, <<list[1], list[Len(list)], Len(list)>>)
    ELSE WriteLine("call", Dot(src, "listv"), <<>>, list)

\* C9: for every non-empty voltage list given to a sweep (valid channels,
\* a transport open, no abort at entry) exactly one source configuration
\* command is sent per channel: linearv(first, last, n) when all consecutive
\* differences are equal, listv(list) otherwise, chosen per channel.
C9_OneSourceCommandPerChannel ==
    (/\ TopSweep /\ InputChecks(args) /\ connection /\ ~EarlyReturn
     /\ args.fn = "dual" => args.smu1 # args.smu2)
        => /\ SourceWrites(log, args.smu1) = <<ExpectedSource(args.smu1, args.list1)>>
           /\ args.fn = "dual" =>
                 SourceWrites(log, args.smu2) = <<ExpectedSource(args.smu2, args.list2)>>

\* the orchestrator call returned its collector after the whole loop
MeasReturned == meas.op # "none" /\ meas.stage = "done" /\ outcome = "returned"

\* the inner sweep list in start-to-stop order
InnerList(m) ==
    LET step == sign(m.stop - m.start) * abs(m.step)
    IN  arange(m.start, m.stop + step, step)

\* C10: when no abort occurs, transferMeasurement / outputMeasurement over n
\* fixed values appends exactly 2n legs in the order of the fixed values, and
\* for every fixed value the first leg is swept over the inner list in
\* start-to-stop order and the second over that list reversed.
C10_ForwardThenReverseLegs ==
    (MeasReturned /\ ~abort) =>
        /\ Len(sd) = 2 * Len(meas.fixed)
        /\ \A k \in 1..Len(meas.fixed) :
              /\ sd[2 * k - 1].vFix = meas.fixed[k]
              /\ sd[2 * k - 1].vSweep = InnerList(meas)
              /\ sd[2 * k].vFix = meas.fixed[k]
              /\ sd[2 * k].vSweep = Reverse(InnerList(meas))

\* the same for calls with a single fixed value (holds: the direction is
\* only lost from the second fixed value on)
C10_SingleFixedValue ==
    (MeasReturned /\ ~abort /\ Len(meas.fixed) = 1) =>
        /\ Len(sd) = 2
        /\ sd[1].vSweep = InnerList(meas)
        /\ sd[2].vSweep = Reverse(InnerList(meas))

\* the operation needs the transport: a scalar read, a property assignment,
\* a function call, an indexed access
NeedsTransport(o) ==
    \/ o.op \in {"call", "getitem", "setitem"}
    \/ o.op = "get" /\ ScalarName(o.path)
    \/ o.op = "set" /\ o.attr \in PROPERTIES

Dispatched(o) == o.op \notin {"connect", "disconnect"}

\* operation i left the session without a transport: a disconnect, or a
\* connect that failed
ClosedBy(o) == o.op = "disconnect" \/ (o.op = "connect" /\ ~o.ok)

\* C13: while the session has no transport (the connect of the constructor
\* failed, a later connect failed, or after disconnect, until a connect
\* succeeds) every operation that writes or queries fails with
\* KeithleyIOError and sends nothing.
C13_NoTransportFailsWithoutSending ==
    /\ \A j \in 1..Len(Ops) :
          (Dispatched(Ops[j]) /\ ~Ops[j].conn) =>
              /\ Ops[j].io = <<>>
              /\ NeedsTransport(Ops[j]) => Ops[j].exc = "KeithleyIOError"
    /\ \A i \in 1..Len(Ops) : \A j \in (i + 1)..Len(Ops) :
          (/\ ClosedBy(Ops[i])
           /\ \A k \in (i + 1)..(j - 1) : Ops[k].op # "connect")
              => ~Ops[j].conn
    /\ log = Flatten([j \in 1..Len(Ops) |-> Ops[j].io])

\* a read that worked, then disconnect, then the same read fails
C13_Witness ==
    /\ Len(Ops) = 3
    /\ Ops[1].op = "get" /\ Ops[1].conn /\ Len(Ops[1].io) = 1
    /\ Ops[2].op = "disconnect"
    /\ Ops[3].op = "get" /\ Ops[3].path = Ops[1].path
    /\ Ops[3].exc = "KeithleyIOError" /\ Ops[3].io = <<>>
    /\ Len(log) = 1

\* C14: assigning to a name classified as a constant fails with ValueError
\* (the read-only violation), sends no write, and leaves the fields of the
\* node as they were.
C14_ConstantAssignmentRejected ==
    (last.op = "set" /\ last.attr \in CONSTS) =>
        /\ last.exc = "ValueError"
        /\ last.io = <<>>
        /\ heap = last.before
        /\ heap[last.obj].dict = last.before[last.obj].dict

\* a constant assigned on a node that holds a local field
C14_Witness ==
    /\ last.op = "set" /\ last.attr = "ENABLE" /\ last.path = <<"smua">>
    /\ last.exc = "ValueError"
    /\ "bogus" \in DictKeys(heap[last.obj].dict)

\* the last read was of a name in none of the schema sets that was no local
\* field of the node it was read from
UnknownNameRead ==
    /\ last.op = "get"
    /\ Last(last.path) \notin FUNCTIONS \cup PROPERTIES \cup PROPERTY_LISTS
                                \cup CONSTS \cup CLASSES
    /\ Last(last.path) \notin
          DictKeys(Walk(last.before, 1, Front(last.path)).heap[last.node].dict)

Constructions == SelectSeq(Ops, LAMBDA o : o.op = "new")

\* the transports opened for an address
OpenedFor(address) == {i \in 1..Len(opened) : opened[i] = address}

\* C16: after any sequence of constructions through the registry there is at
\* most one session per address. A construction for an address that has no
\* registered session creates one and, unless the constructor raises,
\* registers it; every later construction with that address returns that
\* same session, creates nothing and opens no transport. No address has two
\* registered sessions or two opened transports, and two addresses never
\* share a session.
C16_OneSessionPerAddress ==
    LET news == Constructions IN
    /\ \A p, q \in _instances : (p[1] = q[1] \/ p[2] = q[2]) => p = q
    /\ \A address \in Addresses : Cardinality(OpenedFor(address)) <= 1
    /\ \A j \in 1..Len(news) :
          LET earlier == {i \in 1..(j - 1) : /\ news[i].address = news[j].address
                                             /\ news[i].exc = "none"} IN
          IF earlier = {}
          THEN /\ news[j].created
               /\ news[j].exc = "none" =>
                     /\ news[j].address \in DictKeys(_instances)
                     /\ DictGet(_instances, news[j].address) = news[j].instance
          ELSE /\ ~news[j].created /\ ~news[j].opens /\ news[j].exc = "none"
               /\ \A i \in earlier : news[j].instance = news[i].instance

\* one address constructed, another constructed, then the first again: the
\* third construction returns the session of the first
C16_Witness ==
    LET news == Constructions IN
    /\ Len(news) = 3
    /\ news[1].address = news[3].address /\ news[1].address # news[2].address
    /\ news[1].created /\ news[1].opens /\ news[2].created
    /\ ~news[3].created /\ news[3].instance = news[1].instance
    /\ Cardinality(_instances) = 2

\* the elements' texts with ", " between them, built from the right
RECURSIVE CommaList(_)
CommaList(items) ==
    IF items = <<>> THEN ""
    ELSE IF Len(items) = 1 THEN str(items[1])
    ELSE CommaList(Front(items)) \o ", " \o str(Last(items))

\* C17: _convert_input gives the text true / false for a bool, the text
\* "{v1, v2, ...}" of the elements' texts joined by ", " for a list, array,
\* tuple or set, its dotted name for a MagicClass node, and every other
\* value unchanged.
C17_EncodeByKind ==
    last.op = "encode" =>
        LET value == last.value
            result == last.result IN
        IF value.t = "bool"
        THEN result = PyStr(IF value.b THEN "true" ELSE "false")
        ELSE IF value.t \in {"list", "ndarray", "tuple", "set"}
        THEN /\ result = PyStr("{" \o CommaList(value.items) \o "}")
             /\ value.items = <<PyInt(1), PyInt(-2)>> => result.s = "{1, -2}"
             /\ value.items = <<>> => result.s = "{}"
        ELSE IF value.t = "object" /\ value.kind = "class"
        THEN result = PyStr(value.name)
        ELSE result = value

\* a tuple of two elements was encoded
C17_Witness ==
    /\ last.op = "encode"
    /\ last.value = [PyList(<<PyInt(1), PyStr("a")>>) EXCEPT !.t = "tuple"]
    /\ last.result = PyStr("{1, a}")

\* the nested MagicClass node smua.nvbuffer1 was encoded as its dotted name
C17_WitnessNode ==
    /\ last.op = "encode"
    /\ last.value = PyNode("class", "smua.nvbuffer1")
    /\ last.result = PyStr("smua.nvbuffer1")

\* C18: parse_response gives a Number for a line float() reads, Nil for
\* exactly nil, a Bool for exactly true or false, and the line itself as
\* Text for every other line; it gives one of the four for every line.
C18_DecodeByShape ==
    last.op = "decode" =>
        LET line == last.line
            result == last.result
            text == TextOf(line) IN
        /\ result.type \in {"Number", "Nil", "Bool", "Text"}
        /\ result.type = "Number" <=> IsFloat(line)
        /\ result = Nil <=> text = "nil"
        /\ result = Bool(TRUE) <=> text = "true"
        /\ result = Bool(FALSE) <=> text = "false"
        /\ result.type = "Nil" => result = Nil
        /\ result.type = "Bool" => result \in {Bool(TRUE), Bool(FALSE)}
        /\ result.type = "Text" => result.text = text
        /\ (~IsFloat(line) /\ text \notin {"nil", "true", "false"}) =>
              result = [type |-> "Text", text |-> text]
        /\ text = "1.5" => result = Number(15, -1)
        /\ text = "15" => result = Number(15, 0)
        /\ text = " 15" => result = Number(15, 0)
        /\ text = "1e1" => result = Number(1, 1)
        /\ text = "-.5" => result = Number(-5, -1)
        /\ text = "-150.0" => result = Number(-15, 1)
        /\ text = "1.5e-15" => result = Number(15, -16)
        /\ text \in {"nan", "NaN"} => (result.type = "Number" /\ result.special = "nan")
        /\ text \in {"-inf", "Infinity"} => result.type = "Number"
        /\ text \in {"foo", "True", "true ", "FALSE", " nil", "nil ", "", "1e", "e5",
                     "1.5.1", "1 5", "--1", "1e5e5", "Keithley"} =>
              result = [type |-> "Text", text |-> text]

\* the line 1.5 was decoded to the number 15 * 10^-1
C18_Witness ==
    /\ last.op = "decode" /\ TextOf(last.line) = "1.5"
    /\ last.result = Number(15, -1)

\* a line that is no number and none of the three words was decoded to Text
C18_WitnessText ==
    /\ last.op = "decode" /\ TextOf(last.line) = "True"
    /\ last.result = [type |-> "Text", text |-> "True"]

\* a line that sets up or starts a sweep: any write but the calls made after
\* a sweep (the buffer clears) and at the end of a run (reset, beep)
ConfiguresSweep(line) ==
    /\ line.op = "write"
    /\ ~(/\ line.kind = "call"
         /\ line.name \in {"reset", "beeper.beep"} \cup
               {Dot(Dot(s, b), f) : s \in {"smua", "smub"},
                                    b \in {"nvbuffer1", "nvbuffer2"},
                                    f \in {"clear", "clearcache"}})

LastSweepLine ==
    LET idx == {i \in 1..Len(log) : ConfiguresSweep(log[i])} IN
    IF idx = {} THEN 0 ELSE CHOOSE i \in idx : \A j \in idx : j <= i

\* C20: when transferMeasurement / outputMeasurement has returned its
\* collector, after the whole list of fixed values or on abort, the last four
\* lines it sent are the call of reset with the read of its result and the
\* call of beeper.beep(0.3, 2400) with the read of its result, in this order,
\* after every line of its last sweep; reset and the beep are called once.
C20_ResetThenBeepLast ==
    MeasReturned =>
        LET n == Len(log) IN
        /\ n >= 4
        /\ log[n - 3] = WriteLine("call", "reset", <<>>, <<>>)
        /\ log[n - 2] = QueryLine("result")
        /\ log[n - 1] = WriteLine("call", "beeper.beep", <<"0.3", "2400">>, <<>>)
        /\ log[n] = QueryLine("result")
        /\ LastSweepLine < n - 3
        /\ \A i \in 1..(n - 4) : log[i].name \notin {"reset", "beeper.beep"}

\* a run that returned after all its fixed values, having swept
C20_Witness ==
    /\ MeasReturned /\ ~abort
    /\ Len(sd) = 2 * Len(meas.fixed)
    /\ LastSweepLine > 0
    /\ log[Len(log) - 1].name = "beeper.beep"

\* a run that returned on abort, having swept
C20_WitnessAbort ==
    /\ MeasReturned /\ abort
    /\ Len(sd) < 2 * Len(meas.fixed)
    /\ LastSweepLine > 0
    /\ log[Len(log) - 1].name = "beeper.beep"

\* C21: when a sweep of a transferMeasurement / outputMeasurement run fails
\* with an error after one or more legs were appended, the run returns the
\* collector with those legs to the caller.
C21_LegsReturnedAfterFailure ==
    (meas.op # "none" /\ pc = "exc" /\ Len(sd) >= 1) => MeasReturned

\* the names of the lines that read a buffer, and of the calls that clear one
BufferReads ==
    {Dot(b, "n") : b \in BufferNames}
        \cup {Idx(Dot(b, "readings"), i) : b \in BufferNames, i \in 1..(MaxLen + 1)}
BufferClears == {Dot(b, f) : b \in BufferNames, f \in {"clear", "clearcache"}}

\* the phase of every line of l: 1 a configuration write (a buffer clear
\* sent before the trigger included), 2 output-on, 3 initiate, 4 the manual
\* trigger, 5 a status poll, 6 a buffer read, 7 a buffer clear after the
\* trigger; 0 for the reads of constants and of call results, which belong
\* to the statement they are part of
Phases(l) ==
    LET trg == {i \in 1..Len(l) : l[i].name = "*trg"}
        Of(i) ==
            LET e == l[i] IN
            IF e.op = "write"
            THEN IF e.name = "*trg" THEN 4
                 ELSE IF e.name \in {Dot(Dot(s, "trigger"), "initiate") : s \in SMU_LIST}
                 THEN 3
                 ELSE IF e.name \in {Dot(Dot(s, "source"), "output") : s \in SMU_LIST}
                 THEN 2
                 ELSE IF e.name \in BufferClears /\ \E j \in trg : j < i THEN 7
                 ELSE 1
            ELSE IF e = StatusQuery THEN 5
            ELSE IF e.name \in BufferReads THEN 6
            ELSE 0
    IN  [i \in 1..Len(l) |-> Of(i)]

\* the sweep call is past its trigger: it polls or has returned its data
Triggered == pc \in {"poll_begin", "poll_end", "ret"} /\ ~EarlyReturn

\* C22: the lines of one sweep invocation go through the phases in the
\* order configuration, output-on, initiate, manual trigger, status polls,
\* buffer reads, buffer clears and never go back to an earlier phase; a
\* sweep past its trigger has sent output-on and initiate for each of its
\* channels and exactly one manual trigger, and a sweep that has returned
\* its data has polled, read and cleared.
C22_PhasesInOrder ==
    TopSweep =>
        LET ph == Phases(log)
            m == SelectSeq(ph, LAMBDA p : p # 0)
            has(p) == \E i \in 1..Len(m) : m[i] = p
        IN  /\ \A k \in 1..(Len(m) - 1) : m[k] <= m[k + 1]
            /\ Cardinality({i \in 1..Len(log) : log[i].name = "*trg"}) <= 1
            /\ Triggered =>
                  /\ has(1) /\ has(4)
                  /\ \A k \in 1..Len(Channels(args)) :
                        LET s == Dotted(Channels(args)[k]) IN
                        /\ WritesTo(log, {Dot(Dot(s, "source"), "output")}) # <<>>
                        /\ Initiated(log, s)
            /\ (pc = "ret" /\ ~EarlyReturn) => (has(5) /\ has(6) /\ has(7))

\* a dual sweep over two channels returned its data
C22_Witness ==
    /\ TopSweep /\ args.fn = "dual" /\ args.smu1 # args.smu2
    /\ pc = "ret" /\ ~EarlyReturn
    /\ Len(ret[1]) >= 2

\* the lines the step adds to the log
Sent == SubSeq(log', Len(log) + 1, Len(log'))

\* the step reads a buffer
ReadsBuffer == \E i \in 1..Len(Sent) : Sent[i].name \in BufferReads

\* C23: a sweep enters its second status loop only on a status it has read
\* as non-zero, stays in it while the status it reads is non-zero, and reads
\* its buffers only from that loop on a status it has read as zero; the
\* status a sweep holds changes only by a status query or at sweep entry.
C23_ReadsAfterNonZeroThenZero ==
    [][/\ ReadsBuffer =>
            (pc = "poll_end" /\ status' = 0 /\ Sent[1] = StatusQuery /\ pc' \in {"ret", "exc"})
       /\ (pc' = "poll_end" /\ pc # "poll_end") =>
            (pc = "poll_begin" /\ status' # 0 /\ Sent = <<StatusQuery>>)
       /\ (pc = "poll_end" /\ pc' = "poll_end" /\ log' # log) =>
            (status' # 0 /\ Sent = <<StatusQuery>>)
       /\ (pc = "poll_begin" /\ pc' = "poll_begin" /\ log' # log) =>
            (status' = 0 /\ Sent = <<StatusQuery>>)
       /\ (status' # status /\ pc \in {"poll_begin", "poll_end"}) =>
            Sent # <<>> /\ Sent[1] = StatusQuery]_vars

\* a sweep that waited in both loops has read its buffers
C23_Witness ==
    /\ TopSweep /\ pc = "ret" /\ ~EarlyReturn /\ status = 0
    /\ Len(SelectSeq(log, LAMBDA e : e = StatusQuery)) >= 4
    /\ \E i \in 1..Len(log) : log[i].name \in BufferReads

\* the indices at which the lines of l read the readings of buffer b, in order
IndicesRead(l, b) ==
    LET name(i) == Idx(Dot(b, "readings"), i)
        r == SelectSeq(l, LAMBDA e : e.op = "query" /\
                                     \E i \in 0..(MaxLen + 1) : e.name = name(i))
    IN  [k \in 1..Len(r) |-> CHOOSE i \in 0..(MaxLen + 1) : r[k].name = name(i)]

\* C24: a sweep that has returned its data has set the trigger count of
\* each of its channels to the length of the voltage list and has read,
\* from the current buffer and from the voltage buffer of each channel, the
\* elements 1, 2, ..., triggerCount and no other (once per appearance of the
\* channel among the arguments); each list returned has that length.
C24_HarvestReadsTriggerCount ==
    (TopSweep /\ pc = "ret" /\ ~EarlyReturn) =>
        LET n == Len(args.list1)
            once == [i \in 1..n |-> i] IN
        /\ \A k \in 1..Len(Channels(args)) :
              LET s == Dotted(Channels(args)[k])
                  twice == args.fn = "dual" /\ args.smu1 = args.smu2 IN
              /\ CountOf(log, s) = n
              /\ \A b \in {"nvbuffer1", "nvbuffer2"} :
                    IndicesRead(log, Dot(s, b)) = IF twice THEN once \o once ELSE once
        /\ \A k \in 1..Len(ret) : Len(ret[k]) = n
        /\ \A b \in BufferNames :
              (\A k \in 1..Len(Channels(args)) :
                  b \notin {Dot(Dotted(Channels(args)[k]), x) : x \in {"nvbuffer1", "nvbuffer2"}})
                      => IndicesRead(log, b) = <<>>

\* a dual sweep over lists of three voltages returned its data
C24_Witness ==
    /\ TopSweep /\ args.fn = "dual" /\ args.smu1 # args.smu2
    /\ pc = "ret" /\ ~EarlyReturn
    /\ Len(args.list1) = 3
    /\ IndicesRead(log, "smub.nvbuffer2") = <<1, 2, 3>>

\* the positions in the lines l of the calls of function f of buffer b
CallsAt(l, b, f) ==
    {j \in 1..Len(l) : l[j] = WriteLine("call", Dot(b, f), <<>>, <<>>)}

\* the two buffers of each channel of the sweep with arguments a
BuffersOf(a) ==
    {Dot(Dotted(Channels(a)[k]), b) : k \in 1..Len(Channels(a)),
                                      b \in {"nvbuffer1", "nvbuffer2"}}

\* C25: the step of a sweep that sends the manual trigger has before it called
\* clear() and clearcache() on both buffers of each channel of the sweep, and
\* leaves these buffers empty in the instrument; the step that harvests has
\* called both again on each of them after its last buffer read, and the sweep
\* returns with these buffers empty.
C25_BuffersClearedBeforeAndAfter ==
    [][LET trg == {i \in 1..Len(Sent) : Sent[i].name = "*trg"}
           reads == {i \in 1..Len(Sent) : Sent[i].name \in BufferReads} IN
       /\ trg # {} =>
             \A b \in BuffersOf(args') :
                 /\ \A f \in {"clear", "clearcache"} :
                       \E j \in CallsAt(Sent, b, f) : \A i \in trg : j < i
                 /\ inst'.buf[b] = <<>>
       /\ (reads # {} /\ pc' = "ret") =>
             \A b \in BuffersOf(args) :
                 /\ \A f \in {"clear", "clearcache"} :
                       \E j \in CallsAt(Sent, b, f) : \A i \in reads : i < j
                 /\ inst'.buf[b] = <<>>]_vars

\* a dual sweep returned its data: each buffer was cleared twice and is empty
C25_Witness ==
    /\ TopSweep /\ args.fn = "dual" /\ args.smu1 # args.smu2
    /\ pc = "ret" /\ ~EarlyReturn /\ Len(ret[1]) >= 2
    /\ \A b \in BufferNames :
          /\ Cardinality(CallsAt(log, b, "clear")) = 2
          /\ Cardinality(CallsAt(log, b, "clearcache")) = 2
          /\ inst.buf[b] = <<>>

\* the values the lines of l assign to the property name
Assigned(l, name) ==
    LET w == SelectSeq(l, LAMBDA e : e.op = "write" /\ e.kind = "set" /\ e.name = name)
    IN  [k \in 1..Len(w) |-> w[k].nums]

\* C26: a sweep past its trigger has set, for each of its channels,
\* trigger.endpulse.action and trigger.endsweep.action, both to 1 (Hold) when
\* pulsed is False and both to 0 (Idle) when pulsed is True, and for every
\* value of pulsed both to the same value.
C26_EndActionsFollowPulsed ==
    (TopSweep /\ Triggered) =>
        \A k \in 1..Len(Channels(args)) :
            LET t == Dot(Dotted(Channels(args)[k]), "trigger")
                endpulse == Assigned(log, Dot(Dot(t, "endpulse"), "action"))
                endsweep == Assigned(log, Dot(Dot(t, "endsweep"), "action")) IN
            /\ endpulse # <<>>
            /\ endsweep = endpulse
            /\ \A i \in 1..Len(endpulse) :
                  /\ Len(endpulse[i]) = 1 /\ endpulse[i][1] = endpulse[1][1]
                  /\ args.pulsed = "False" => endpulse[i] = <<1>>
                  /\ args.pulsed = "True" => endpulse[i] = <<0>>

\* a pulsed dual sweep is past its trigger
C26_Witness ==
    /\ TopSweep /\ Triggered /\ args.fn = "dual" /\ args.smu1 # args.smu2
    /\ args.pulsed = "True"
    /\ Assigned(log, "smub.trigger.endsweep.action") = <<<<0>>>>

\* a sweep that is not pulsed is past its trigger
C26_WitnessHold ==
    /\ TopSweep /\ Triggered /\ args.fn = "single"
    /\ args.pulsed = "False"
    /\ Assigned(log, "smua.trigger.endpulse.action") = <<<<1>>>>

\* the names the lines of l before the manual trigger assign to the property
\* name, in order
BoundBeforeTrigger(l, name) ==
    LET trg == {i \in 1..Len(l) : l[i].name = "*trg"}
        w == {j \in 1..Len(l) : /\ l[j].op = "write" /\ l[j].kind = "set"
                                /\ l[j].name = name
                                /\ \A i \in trg : j < i}
    IN  {l[j].refs : j \in w}

\* C27: a sweep past its trigger has, before the manual trigger, set
\* trigger.arm.stimulus of each of its channels to trigger.EVENT_ID.
C27_ArmStimulusOfEveryChannel ==
    (TopSweep /\ Triggered) =>
        \A k \in 1..Len(Channels(args)) :
            BoundBeforeTrigger(log, Dot(Dot(Dot(Dotted(Channels(args)[k]), "trigger"),
                                            "arm"), "stimulus"))
                = {<<"trigger.EVENT_ID">>}

\* the same for the first channel of every sweep and the only channel of a
\* single sweep (holds)
C27_ArmStimulusOfFirstChannel ==
    (TopSweep /\ Triggered) =>
        BoundBeforeTrigger(log, Dot(Dot(Dot(Dotted(args.smu1), "trigger"),
                                        "arm"), "stimulus"))
            = {<<"trigger.EVENT_ID">>}

\* C28: a sweep past its trigger has set trigger.measure.stimulus of each of
\* its channels to trigger.SOURCE_COMPLETE_EVENT_ID of that same channel.
C28_MeasureStimulusOwnEvent ==
    (TopSweep /\ Triggered) =>
        \A k \in 1..Len(Channels(args)) :
            LET t == Dot(Dotted(Channels(args)[k]), "trigger") IN
            BoundBeforeTrigger(log, Dot(Dot(t, "measure"), "stimulus"))
                = {<<Dot(t, "SOURCE_COMPLETE_EVENT_ID")>>}

\* C28 as the code has it: a sweep past its trigger has set
\* trigger.measure.stimulus of each of its channels to
\* trigger.SOURCE_COMPLETE_EVENT_ID of its first channel, the only channel of
\* a single sweep and smu1 of a dual sweep.
C28_MeasureStimulusFirstChannelEvent ==
    (TopSweep /\ Triggered) =>
        \A k \in 1..Len(Channels(args)) :
            LET t == Dot(Dotted(Channels(args)[k]), "trigger") IN
            BoundBeforeTrigger(log, Dot(Dot(t, "measure"), "stimulus"))
                = {<<Dot(Dot(Dotted(args.smu1), "trigger"), "SOURCE_COMPLETE_EVENT_ID")>>}

\* a dual sweep over smub and smua is past its trigger: smua measures on the
\* source-complete event of smub
C28_Witness ==
    /\ TopSweep /\ Triggered /\ args.fn = "dual"
    /\ args.smu1 = <<"smub">> /\ args.smu2 = <<"smua">>
    /\ BoundBeforeTrigger(log, "smua.trigger.measure.stimulus")
          = {<<"smub.trigger.SOURCE_COMPLETE_EVENT_ID">>}

\* C29: a sweep that passed its entry check and returned while the abort
\* event was set has skipped nothing: the instrument completed the sweep, the
\* call polled the status, read every element of both buffers of each of its
\* channels, cleared them after the reads and returned the measured lists.
\* The status loops and the harvest do not read the event: a sweep returns
\* without data only at its entry.
C29_AbortAfterEntryChangesNothing ==
    (TopSweep /\ pc = "ret" /\ abort /\ ~EarlyReturn) =>
        LET n == Len(args.list1)
            m == SelectSeq(Phases(log), LAMBDA p : p # 0)
            has(p) == \E i \in 1..Len(m) : m[i] = p
            twice == args.fn = "dual" /\ args.smu1 = args.smu2 IN
        /\ inst.phase = "complete"
        /\ outcome = "returned" /\ ~busy
        /\ has(4) /\ has(5) /\ has(6) /\ has(7)
        /\ \A k \in 1..(Len(m) - 1) : m[k] <= m[k + 1]
        /\ Len(ret) = 2 * Len(Channels(args))
        /\ \A k \in 1..Len(Channels(args)) :
              LET s == Dotted(Channels(args)[k]) IN
              /\ ret[2 * k - 1] = Readings(log, s) /\ ret[2 * k] = Readings(log, s)
              /\ Len(ret[2 * k]) = n
              /\ \A b \in {"nvbuffer1", "nvbuffer2"} :
                    /\ Len(IndicesRead(log, Dot(s, b))) = IF twice THEN 2 * n ELSE n
                    /\ Cardinality(CallsAt(log, Dot(s, b), "clear")) >= 2

\* a dual sweep returned its data although the abort event was set while it
\* waited for the sweep to begin
C29_Witness ==
    /\ TopSweep /\ args.fn = "dual" /\ args.smu1 # args.smu2
    /\ pc = "ret" /\ abort /\ ~EarlyReturn
    /\ Len(ret[1]) = 3 /\ Len(ret[4]) = 3

\* the run has built its inner sweep list and has not yet flipped it
ListBuilt == meas.op # "none" /\ meas.stage = "loop" /\ meas.i = 1

\* the inner sweep list of the run begins at start, moves by
\* sign(stop - start) * |step| and ends at or beyond stop
GoodInnerList ==
    LET l == meas.sweeplist
        d == sign(meas.stop - meas.start) * abs(meas.step) IN
    /\ l # <<>>
    /\ l[1] = meas.start
    /\ \A k \in 1..(Len(l) - 1) : l[k + 1] - l[k] = d
    /\ d >= 0 => Last(l) >= meas.stop
    /\ d <= 0 => Last(l) <= meas.stop

\* C30: for every start, stop and non-zero step, start = stop included,
\* transferMeasurement / outputMeasurement builds an inner sweep list that is
\* not empty, begins at start, moves by sign(stop - start) * |step| between
\* consecutive points and ends at or beyond stop.
C30_InnerListReachesStop ==
    meas.op # "none" =>
        /\ meas.stage # "enter"
        /\ ~(meas.stage = "exc" /\ meas.i = 0)
        /\ ListBuilt => GoodInnerList

\* the same for start # stop (holds): the list is built and is as described,
\* and its last point is less than one step beyond stop
C30_InnerListWhenStartDiffers ==
    (meas.op # "none" /\ meas.start # meas.stop) =>
        /\ ~(meas.stage = "exc" /\ meas.i = 0)
        /\ ListBuilt =>
              /\ GoodInnerList
              /\ abs(Last(meas.sweeplist) - meas.stop) < abs(meas.step)

\* the operations of the kind op made so far
OpsOf(op) == SelectSeq(Ops, LAMBDA o : o.op \in op)

\* every object created so far is kept, with the name it was created with
NamesKept ==
    /\ Len(heap') >= Len(heap)
    /\ \A o \in 1..Len(heap) : heap'[o].name = heap[o].name

NothingExecutes == Idle \/ outcome # "none"

\* C33: whenever no sweep and no transferMeasurement / outputMeasurement call
\* is executing on a session, the session's busy flag is false: after calls
\* that return normally, after calls that return early because another
\* thread set the abort event, and after calls that end with an error.
C33_BusyFalseWhenNothingExecutes == NothingExecutes => ~busy

\* the same for the calls that run to the end of their loop (holds)
C33_BusyFalseAfterFullRun ==
    (outcome = "returned" /\ meas.op # "none" /\ meas.i > Len(meas.fixed)) => ~busy

\* the manual trigger was sent and the call waits for the sweep to begin
AwaitsBegin == pc = "poll_begin"

C32_ReturnsOnceSweepSeen == (pc \in {"poll_end", "sleep_end"}) ~> (pc = "ret")

\* the source levels the ramp set, in order
LevelsSet ==
    LET w == WritesTo(log, {Dot(Dot(Dotted(args.smu1), "source"), "levelv")})
    IN  [i \in 1..Len(w) |-> w[i].nums[1]]

\* a ramp ran to its end
Ramped == last.op = "ramp" /\ outcome = "returned"

\* the direction from the level the ramp started at to its target
RampSign == sign(last.targetVolt - last.Vcurr)

\* every level set lies further toward the target than the one before
TowardTarget ==
    \A i \in 1..(Len(LevelsSet) - 1) :
        RampSign * (LevelsSet[i + 1] - LevelsSet[i]) > 0

\* C34: rampToVoltage started from a source level different from targetVolt,
\* with non-zero stepSize, sets a sequence of levels that moves monotonically
\* from the current level toward targetVolt, never sets a level beyond
\* targetVolt and ends with the level equal to targetVolt; when the current
\* level already equals targetVolt it sets no level.
C34_RampEndsAtTarget ==
    Ramped =>
        IF last.Vcurr = last.targetVolt THEN LevelsSet = <<>>
        ELSE /\ LevelsSet # <<>>
             /\ TowardTarget
             /\ \A i \in 1..Len(LevelsSet) :
                   RampSign * (LevelsSet[i] - last.targetVolt) <= 0
             /\ Last(LevelsSet) = last.targetVolt

\* what the ramp does (holds): the levels start at the current level and move
\* toward the target by |stepSize|; the last one is the target when the
\* distance is a multiple of |stepSize| and otherwise lies beyond the target
\* by less than one step
C34_RampReachesOrPassesTarget ==
    Ramped =>
        IF last.Vcurr = last.targetVolt THEN LevelsSet = <<>>
        ELSE LET d == abs(last.targetVolt - last.Vcurr)
                 over == RampSign * (Last(LevelsSet) - last.targetVolt) IN
             /\ LevelsSet # <<>>
             /\ LevelsSet[1] = last.Vcurr
             /\ TowardTarget
             /\ \A i \in 1..(Len(LevelsSet) - 1) :
                   abs(LevelsSet[i + 1] - LevelsSet[i]) = abs(last.stepSize)
             /\ over >= 0 /\ over < abs(last.stepSize)
             /\ over = 0 <=> d % abs(last.stepSize) = 0

====
